---- MODULE Spec2Model ----
(***************************************************************************)
(* A state-machine model of evalml's classification pipelines              *)
(* (evalml/pipelines/classification_pipeline.py) and of the AutoML helpers *)
(* in evalml/automl/utils.py.                                              *)
(*                                                                         *)
(* Pipelines, label encoders and component graphs are objects on a heap:   *)
(* a pipeline holds a reference to its encoder and to its component graph, *)
(* so that aliasing between a pipeline and its clone is expressible.       *)
(*                                                                         *)
(* Optional values (Python None or a value) are sets with at most one      *)
(* element.  Thresholds are percentages (0.5 is 50).  A call's outcome is  *)
(* a record [err, val]: err = "" when the call returns val, and the        *)
(* exception otherwise.                                                    *)
(***************************************************************************)
EXTENDS Integers, Sequences, FiniteSets, TLC

VARIABLES
    pipes,      \* pipeline id -> the pipeline object's fields (live objects only)
    encoders,   \* encoder id  -> optional classes_ of a LabelEncoder
    graphs,     \* graph id    -> optional learned state of a component graph
    last,       \* the most recent call: what was called, on what, and its outcome
    history     \* pipeline id -> what has been called on it so far: last_fit, the
                \* optional arguments and outcome of its latest fit call; fitted_on,
                \* the optional data of its latest fit call that returned; tuned,
                \* whether a threshold-tuning call was made on it

vars == <<pipes, encoders, graphs, last, history>>

----------------------------------------------------------------------------
(* Values *)

None == {}
Some(x) == {x}
The(s) == CHOOSE x \in s : TRUE

Ok(v) == [err |-> "", val |-> v]
Raise(e) == [err |-> e, val |-> <<>>]

PipeIds == {"P", "Q"}
EncIds == {"e1", "e2"}
GraphIds == {"g1", "g2"}

\* The longest list of objectives handed to score.
MaxObjectives == 2

\* Feature tables: cols is the number of (integer-named) columns, vals
\* identifies the cell values.  XA and XB have the same shape and different
\* values; XC has one more column.
XA == [cols |-> 1, vals |-> 1, rows |-> 2]
XB == [cols |-> 1, vals |-> 2, rows |-> 2]
XC == [cols |-> 2, vals |-> 1, rows |-> 2]
Xs == {XA, XB, XC}


ParameterSets == { [C |-> 1], [C |-> 2] }
Seeds == {0, 1}

----------------------------------------------------------------------------
(* Sequences and ordered dictionaries *)

Range(s) == { s[i] : i \in DOMAIN s }

Min(S) == CHOOSE x \in S : \A y \in S : x <= y

RECURSIVE SortedSeq(_)
SortedSeq(S) == IF S = {} THEN <<>>
                ELSE <<Min(S)>> \o SortedSeq(S \ {Min(S)})

IndexOf(s, v) == CHOOSE i \in DOMAIN s : s[i] = v

SeqsUpTo(S, n) == UNION { [1..k -> S] : k \in 0..n }

Keys(d) == { d[i][1] : i \in DOMAIN d }

\* OrderedDict.update({k: v}): a new key is appended, an existing key keeps
\* its place and takes the new value.
DictPut(d, k, v) ==
    IF k \in Keys(d)
    THEN [i \in DOMAIN d |-> IF d[i][1] = k THEN <<k, v>> ELSE d[i]]
    ELSE Append(d, <<k, v>>)

Sum(s) ==
    LET RECURSIVE Add(_)
        Add(i) == IF i = 0 THEN 0 ELSE s[i] + Add(i - 1)
    IN Add(Len(s))

\* The elements of the sequence `names`, in the order in which they occur in `order`.
SortedNames(names, order) ==
    LET positions == SortedSeq({ IndexOf(order, names[i]) : i \in DOMAIN names })
    IN [i \in DOMAIN positions |-> order[positions[i]]]

\* The concatenation of a sequence of sequences.
RECURSIVE Concat(_)
Concat(ss) == IF ss = <<>> THEN <<>> ELSE Head(ss) \o Concat(Tail(ss))

----------------------------------------------------------------------------
(* Problem types, pipeline classes and objectives *)

\* The concrete pipeline classes of the model.  BinarySubPipeline is a
\* subclass of BinaryPipeline that declares the same component graph.
\* NonlinearBinaryPipeline and DiamondBinaryPipeline declare their component
\* graphs as mappings of named nodes.  FakePipeline and TestPipeline are the
\* classes the tests declare to make construction fail: a list with a
\* component name that does not exist, and a list that starts with a
\* component whose constructor has a required argument.
Classes == {"BinaryPipeline", "BinarySubPipeline", "MulticlassPipeline", "RegressionPipeline",
            "NonlinearBinaryPipeline", "DiamondBinaryPipeline", "FakePipeline", "TestPipeline"}

problem_type(cls) ==
    CASE cls = "BinaryPipeline" -> "binary"
      [] cls = "BinarySubPipeline" -> "binary"
      [] cls = "NonlinearBinaryPipeline" -> "binary"
      [] cls = "DiamondBinaryPipeline" -> "binary"
      [] cls = "FakePipeline" -> "binary"
      [] cls = "TestPipeline" -> "binary"
      [] cls = "MulticlassPipeline" -> "multiclass"
      [] cls = "RegressionPipeline" -> "regression"

is_binary(pt) == pt \in {"binary", "time series binary"}

is_classification(pt) == pt \in {"binary", "multiclass"}

\* The objectives: for each name, the problem types it is defined for,
\* whether its score needs probabilities, and whether it can optimize a
\* binary decision threshold.  "Custom Tunable" stands for a user-defined
\* objective that can optimize a threshold and is not defined for binary
\* problems.
Objectives ==
    { [name |-> "F1", problem_types |-> {"binary"},
       score_needs_proba |-> FALSE, can_optimize_threshold |-> TRUE],
      [name |-> "Precision", problem_types |-> {"binary"},
       score_needs_proba |-> FALSE, can_optimize_threshold |-> TRUE],
      [name |-> "Log Loss Binary", problem_types |-> {"binary"},
       score_needs_proba |-> TRUE, can_optimize_threshold |-> FALSE],
      [name |-> "F1 Macro", problem_types |-> {"multiclass"},
       score_needs_proba |-> FALSE, can_optimize_threshold |-> FALSE],
      [name |-> "Log Loss Multiclass", problem_types |-> {"multiclass"},
       score_needs_proba |-> TRUE, can_optimize_threshold |-> FALSE],
      [name |-> "R2", problem_types |-> {"regression"},
       score_needs_proba |-> FALSE, can_optimize_threshold |-> FALSE],
      [name |-> "Custom Tunable", problem_types |-> {"multiclass"},
       score_needs_proba |-> FALSE, can_optimize_threshold |-> TRUE] }

ObjectiveNames == { o.name : o \in Objectives }

get_objective(name) == CHOOSE o \in Objectives : o.name = name

is_defined_for_problem_type(objective, pt) == pt \in objective.problem_types

\* The thresholds an objective's own threshold search may return.
ThresholdChoices == {0, 30, 100}

----------------------------------------------------------------------------
(* The label encoder (sklearn's LabelEncoder, as the pipeline uses it) *)

\* LabelEncoder.fit: classes_ becomes the sorted distinct values of y,
\* whatever the encoder held before.
LabelEncoder_fit(y) == Some(SortedSeq(Range(y.vals)))

\* LabelEncoder.transform: the i-th smallest class is coded i-1.
LabelEncoder_transform(encoder, vals) ==
    IF encoder = None
    THEN Raise("This LabelEncoder instance is not fitted yet.")
    ELSE LET classes == The(encoder) IN
         IF \E i \in DOMAIN vals : vals[i] \notin Range(classes)
         THEN Raise("y contains previously unseen labels")
         ELSE Ok([i \in DOMAIN vals |-> IndexOf(classes, vals[i]) - 1])

\* LabelEncoder.inverse_transform
LabelEncoder_inverse_transform(encoder, codes) ==
    IF encoder = None
    THEN Raise("This LabelEncoder instance is not fitted yet.")
    ELSE LET classes == The(encoder) IN
         IF \E i \in DOMAIN codes : codes[i] \notin 0..(Len(classes) - 1)
         THEN Raise("y contains previously unseen labels")
         ELSE Ok([i \in DOMAIN codes |-> classes[codes[i] + 1]])

\* A variant of _encode_targets that builds the encoded series without the
\* name of the series it is given.
_encode_targets_unnamed(encoder, y) ==
    LET r == LabelEncoder_transform(encoder, y.vals) IN
    IF r.err # "" THEN Raise("ValueError: " \o r.err)
    ELSE Ok([vals |-> r.val, name |-> None])

\* ClassificationPipeline._encode_targets: a ValueError of the encoder is
\* raised again as a ValueError with the same text; the name of the series
\* is kept.
_encode_targets(encoder, y) ==
    LET r == LabelEncoder_transform(encoder, y.vals) IN
    IF r.err # "" THEN Raise("ValueError: " \o r.err)
    ELSE Ok([vals |-> r.val, name |-> y.name])

\* A variant of _decode_targets that returns the codes it is given.
_decode_targets_identity(encoder, codes) == Ok(codes)

\* ClassificationPipeline._decode_targets
_decode_targets(encoder, codes) ==
    LET r == LabelEncoder_inverse_transform(encoder, codes) IN
    IF r.err # "" THEN Raise("ValueError: " \o r.err) ELSE r

\* A variant of classes_ without the hasattr check.
classes__unchecked(encoder) ==
    IF encoder = None
    THEN Raise("AttributeError: 'LabelEncoder' object has no attribute 'classes_'")
    ELSE Ok(The(encoder))

\* ClassificationPipeline.classes_
classes_(encoder) ==
    IF encoder = None
    THEN Raise("AttributeError: Cannot access class names before fitting the pipeline.")
    ELSE Ok(The(encoder))

----------------------------------------------------------------------------
(* The component graph *)

\* A node declaration: the node's name, whether its component is a
\* transformer that keeps the columns it is given (an imputer, a scaler), an
\* encoder (a one-hot encoder) or an estimator, and its parents in declared
\* order.
Node(name, kind, parents) == [name |-> name, kind |-> kind, parents |-> parents]

\* A linear component graph, given as a list of components, is normalized
\* to a chain: the only parent of node i is node i-1.
LinearGraph(components) ==
    [i \in DOMAIN components |->
        Node(components[i].name, components[i].kind,
             IF i = 1 THEN <<>> ELSE <<components[i - 1].name>>)]

LinearComponents == << [name |-> "Imputer", kind |-> "transformer"],
                       [name |-> "Estimator", kind |-> "estimator"] >>

\* Two encoder branches feed two classifiers, whose predictions feed the
\* final estimator.  The nodes and their parents are those of the pipeline
\* the tests iterate over (test_nonlinear_pipeline_iteration) and compute
\* estimator features for (test_compute_estimator_features_nonlinear); the
\* nodes are declared in the order in which the tests find them.
NonlinearGraph ==
    << Node("Imputer", "transformer", <<>>),
       Node("OneHot_ElasticNet", "encoder", <<"Imputer">>),
       Node("Elastic Net", "estimator", <<"OneHot_ElasticNet">>),
       Node("OneHot_RandomForest", "encoder", <<"Imputer">>),
       Node("Random Forest", "estimator", <<"OneHot_RandomForest">>),
       Node("Logistic Regression", "estimator", <<"Random Forest", "Elastic Net">>) >>

\* A mapping that declares a node before its parents, and the parents of the
\* final estimator in the order opposite to their declaration.
DiamondGraph ==
    << Node("Estimator", "estimator", <<"Scaler", "Encoder">>),
       Node("Encoder", "encoder", <<"Imputer">>),
       Node("Scaler", "transformer", <<"Imputer">>),
       Node("Imputer", "transformer", <<>>) >>

\* The lists of FakePipeline and of TestPipeline.
FakeComponents == << [name |-> "Imputer", kind |-> "transformer"],
                     [name |-> "This Component Does Not Exist", kind |-> "transformer"],
                     [name |-> "Estimator", kind |-> "estimator"] >>

MockComponents == << [name |-> "Mock Component", kind |-> "transformer"],
                     [name |-> "Estimator", kind |-> "estimator"] >>

\* The component_graph class attribute.
component_graph(cls) ==
    CASE cls = "NonlinearBinaryPipeline" -> NonlinearGraph
      [] cls = "DiamondBinaryPipeline" -> DiamondGraph
      [] cls = "FakePipeline" -> LinearGraph(FakeComponents)
      [] cls = "TestPipeline" -> LinearGraph(MockComponents)
      [] OTHER -> LinearGraph(LinearComponents)

NodeNamed(decls, name) == decls[CHOOSE i \in DOMAIN decls : decls[i].name = name]

\* A variant of compute_order that takes the nodes in declaration order.
compute_order_declared(decls) == [i \in DOMAIN decls |-> decls[i].name]

\* The execution order: of the nodes whose parents all come earlier in the
\* order, the one declared first comes next.
RECURSIVE compute_order_from(_, _)
compute_order_from(decls, done) ==
    LET ready == { i \in DOMAIN decls : /\ decls[i].name \notin Range(done)
                                        /\ Range(decls[i].parents) \subseteq Range(done) }
    IN IF ready = {} THEN done
       ELSE compute_order_from(decls, Append(done, decls[Min(ready)].name))

compute_order(decls) == compute_order_from(decls, <<>>)

\* The names of the columns of a feature table.
ColumnNames(X) == [i \in 1..X.cols |-> <<"col_0", "col_1", "col_2">>[i]]

\* The output a pass holds for a node; a node the pass has not computed has
\* none.
parent_output(cache, name) == IF name \in DOMAIN cache THEN cache[name] ELSE <<>>

\* A variant of node_input that concatenates the parents' outputs in the
\* order in which the parents were executed.
node_input_executed(decl, order, X_cols, cache) ==
    IF decl.parents = <<>> THEN X_cols
    ELSE Concat([i \in 1..Len(decl.parents) |->
                    parent_output(cache, SortedNames(decl.parents, order)[i])])

\* The input of a node: the table given to the pass for a node without
\* parents, and otherwise the outputs of its parents, side by side, in
\* declared parent order.
node_input(decl, order, X_cols, cache) ==
    IF decl.parents = <<>> THEN X_cols
    ELSE Concat([i \in DOMAIN decl.parents |-> parent_output(cache, decl.parents[i])])

\* The output of a node: a transformer's features under the names of its
\* input's columns, an encoder's features under names derived from them, and
\* an estimator's predictions as one column named after the node.
node_output(decl, input) ==
    CASE decl.kind = "estimator" -> <<decl.name>>
      [] decl.kind = "encoder" -> [i \in DOMAIN input |-> input[i] \o "_1"]
      [] OTHER -> input

\* The invocations made for a node by a pass that keeps no outputs: its
\* parents are invoked again for it, and then the node itself.
RECURSIVE invoke_uncached(_, _, _, _)
invoke_uncached(decls, X_cols, mode, name) ==
    LET decl == NodeNamed(decls, name)
        above == [j \in DOMAIN decl.parents |->
                    invoke_uncached(decls, X_cols, mode, decl.parents[j])]
        output(j) == node_output(NodeNamed(decls, decl.parents[j]),
                                 above[j][Len(above[j])].input)
        input == IF decl.parents = <<>> THEN X_cols
                 ELSE Concat([j \in DOMAIN decl.parents |-> output(j)])
    IN Append(Concat(above), [node |-> name, mode |-> mode, input |-> input, raised |-> FALSE])

\* A variant of run_pass without the cache of outputs.
run_pass_uncached(decls, order, X_cols, mode, fail_at, cache, trace) ==
    LET whole == invoke_uncached(decls, X_cols, mode, order[Len(order)])
    IN IF fail_at = 0 THEN [err |-> "", trace |-> whole]
       ELSE [err |-> "Exception: component fit failed",
             trace |-> [i \in 1..fail_at |-> [whole[i] EXCEPT !.raised = (i = fail_at)]]]

\* One pass over the graph, in fit mode or in predict mode.  Each node of
\* the order is invoked once on its input, and its output is kept in the
\* cache of the pass for its children.  In fit mode the component invoked
\* fail_at-th raises (none when fail_at is 0), which ends the pass.  The
\* trace lists the invocations made.
RECURSIVE run_pass(_, _, _, _, _, _, _)
run_pass(decls, order, X_cols, mode, fail_at, cache, trace) ==
    IF Len(trace) = Len(order)
    THEN [err |-> "", trace |-> trace]
    ELSE LET decl == NodeNamed(decls, order[Len(trace) + 1])
             input == node_input(decl, order, X_cols, cache)
             raised == Len(trace) + 1 = fail_at
             call == [node |-> decl.name, mode |-> mode, input |-> input, raised |-> raised]
         IN IF raised
            THEN [err |-> "Exception: component fit failed", trace |-> Append(trace, call)]
            ELSE run_pass(decls, order, X_cols, mode, fail_at,
                          (decl.name :> node_output(decl, input)) @@ cache,
                          Append(trace, call))

NoCache == [n \in {} |-> <<>>]

\* ComponentGraph.fit on a graph object whose state is `graph`: the outcome,
\* the trace of the pass and the state of the graph afterwards.  Each
\* component whose fit returned holds what it learned from this call's
\* data; the others are as they were.
ComponentGraph_fit(graph, decls, parameters, random_seed, X, y, fail_at) ==
    LET order == compute_order(decls)
        pass == run_pass(decls, order, ColumnNames(X), "fit", fail_at, NoCache, <<>>)
        fitted == { pass.trace[i].node : i \in { j \in DOMAIN pass.trace : ~pass.trace[j].raised } }
        before(n) == IF graph = None THEN None ELSE The(graph).nodes[n]
        final == order[Len(order)]
    IN [err |-> pass.err,
        trace |-> pass.trace,
        graph |-> IF fitted = {} THEN graph
                  ELSE Some([parameters |-> parameters, random_seed |-> random_seed,
                             order |-> order,
                             nodes |-> [n \in Range(order) |->
                                          IF n \in fitted THEN Some([X |-> X, y |-> y.vals])
                                          ELSE before(n)],
                             estimator_features |->
                                 IF final \in fitted THEN pass.trace[Len(order)].input
                                 ELSE IF graph = None THEN <<>>
                                 ELSE The(graph).estimator_features])]

\* Whether every component of the graph has been fitted.
AllFitted(graph) ==
    /\ graph # None
    /\ \A n \in DOMAIN The(graph).nodes : The(graph).nodes[n] # None

\* What the final estimator learned from.
EstimatorData(graph) == The(The(graph).nodes[The(graph).order[Len(The(graph).order)]])

\* What the graph's output depends on besides the input: the parameters,
\* the seed and what each component learned from.
GraphDigest(graph) ==
    LET m == The(graph) IN
    m.parameters.C + m.random_seed
      + Sum([i \in DOMAIN m.order |->
               i * (The(m.nodes[m.order[i]]).X.vals * 3 + The(m.nodes[m.order[i]]).X.cols)])

\* ComponentGraph.predict: one encoded label per row, each among the encoded
\* labels the final estimator saw at fit.
ComponentGraph_predict(graph, X) ==
    IF ~AllFitted(graph) THEN Raise("ComponentNotYetFittedError")
    ELSE LET y == EstimatorData(graph).y
             k(i) == ((GraphDigest(graph) + X.vals + X.cols + i) % Len(y)) + 1
         IN Ok([i \in 1..X.rows |-> y[k(i)]])

\* Estimator.predict_proba: one column per class the final estimator saw at fit.
Estimator_predict_proba(graph, X) ==
    IF ~AllFitted(graph) THEN Raise("ComponentNotYetFittedError")
    ELSE LET n == Cardinality(Range(EstimatorData(graph).y))
         IN Ok([c \in 1..n |->
                  (GraphDigest(graph) * 7 + X.vals * 19 + X.cols * 23 + c * 29) % 101])

\* The final estimator's feature importance: one row per feature it was
\* fitted on, under the feature's name.
ComponentGraph_feature_importance(graph) ==
    IF ~AllFitted(graph) THEN Raise("ComponentNotYetFittedError")
    ELSE Ok(The(graph).estimator_features)

----------------------------------------------------------------------------
(* Construction of the components *)

\* The component each node of the model's graphs stands for.  A node of
\* TestPipeline's list is given as a class, the others as names.
ComponentOf(name) ==
    CASE name \in {"OneHot_ElasticNet", "OneHot_RandomForest", "Encoder"} -> "One Hot Encoder"
      [] name = "Scaler" -> "Standard Scaler"
      [] name = "Elastic Net" -> "Elastic Net Classifier"
      [] name = "Random Forest" -> "Random Forest Classifier"
      [] name \in {"Logistic Regression", "Estimator"} -> "Logistic Regression Classifier"
      [] OTHER -> name

GivenAsClass(name) == name = "Mock Component"

\* The component registry: the names that resolve to a component class.
Registry == {"Imputer", "One Hot Encoder", "Standard Scaler", "Elastic Net Classifier",
             "Random Forest Classifier", "Logistic Regression Classifier"}

\* The constructor of a component: the arguments it has, and those of them
\* without a default.  MockComponent is __init__(self, a, b=1, c='2').
Constructor(component) ==
    CASE component = "Mock Component" -> [arguments |-> {"a", "b", "c"}, required |-> {"a"}]
      [] component = "Logistic Regression Classifier" ->
             [arguments |-> {"penalty", "C", "n_jobs"}, required |-> {}]
      [] component = "One Hot Encoder" -> [arguments |-> {"top_n"}, required |-> {}]
      [] OTHER -> [arguments |-> {}, required |-> {}]

\* The arguments the parameters give to a node's component: those listed
\* under the node's name, and C for the final estimator.
component_parameters(parameters, name) ==
    (IF "components" \in DOMAIN parameters /\ name \in DOMAIN parameters.components
     THEN parameters.components[name] ELSE {})
    \cup (IF name = "Estimator" /\ "C" \in DOMAIN parameters THEN {"C"} ELSE {})

\* handle_component_class: a class is taken as it is, and a name is looked
\* up in the registry.
handle_component_class(name) ==
    IF GivenAsClass(name) \/ ComponentOf(name) \in Registry
    THEN Ok(ComponentOf(name))
    ELSE Raise("MissingComponentError: Component " \o name \o " was not found")

\* A variant of the instantiation of a component that drops the arguments
\* the constructor does not have and leaves a missing one to a default.
instantiate_component_defaulting(component, given) == Ok(component)

\* The instantiation of a component with the arguments given for it: the
\* constructor's TypeError or ValueError becomes a ValueError.
instantiate_component(component, given) ==
    IF given \subseteq Constructor(component).arguments
       /\ Constructor(component).required \subseteq given
    THEN Ok(component)
    ELSE Raise("ValueError: Error received when instantiating component " \o component)

\* The first error in a sequence of outcomes, and Ok when there is none.
RECURSIVE FirstError(_)
FirstError(outcomes) ==
    IF outcomes = <<>> THEN Ok(<<>>)
    ELSE IF Head(outcomes).err # "" THEN Head(outcomes)
    ELSE FirstError(Tail(outcomes))

\* The construction of a pipeline's component graph: every component
\* reference is resolved, and then every component is instantiated, in the
\* order of declaration.
ComponentGraph__init__(cls, parameters) ==
    LET decls == component_graph(cls)
        resolved == FirstError([i \in DOMAIN decls |-> handle_component_class(decls[i].name)])
    IN IF resolved.err # "" THEN resolved
       ELSE FirstError([i \in DOMAIN decls |->
                          instantiate_component(ComponentOf(decls[i].name),
                                                component_parameters(parameters, decls[i].name))])

----------------------------------------------------------------------------
(* Pipeline objects *)

\* PipelineBase.__init__: a new pipeline owns a new, unfitted component
\* graph; it is not fitted, has no target name and no threshold.
PipelineBase__init__(cls, parameters, random_seed, g) ==
    [cls |-> cls, parameters |-> parameters, random_seed |-> random_seed,
     _component_graph |-> g, _is_fitted |-> FALSE,
     input_target_name |-> None, input_feature_names |-> None,
     threshold |-> None]

\* A variant of __init__ in which the encoder is one object held by the
\* class, not one made for each instance.
__init__class_encoder(cls, parameters, random_seed, e, g) ==
    [_encoder |-> "e1"] @@ PipelineBase__init__(cls, parameters, random_seed, g)

\* ClassificationPipeline.__init__: e is the new LabelEncoder() object.
__init__(cls, parameters, random_seed, e, g) ==
    [_encoder |-> e] @@ PipelineBase__init__(cls, parameters, random_seed, g)

UsedEncoders == { pipes[p]._encoder :
                    p \in { q \in DOMAIN pipes : is_classification(problem_type(pipes[q].cls)) } }
UsedGraphs == { pipes[p]._component_graph : p \in DOMAIN pipes }

\* Object allocation: an identity no live object has.
NewEncoder == CHOOSE e \in EncIds : e \notin UsedEncoders
NewGraph == CHOOSE g \in GraphIds : g \notin UsedGraphs

\* Constructing a pipeline of class cls as object q.
Construct(q, cls, parameters, random_seed) ==
    LET e == NewEncoder
        g == NewGraph
    IN /\ pipes' = (q :> (IF is_classification(problem_type(cls))
                          THEN __init__(cls, parameters, random_seed, e, g)
                          ELSE PipelineBase__init__(cls, parameters, random_seed, g)))
                   @@ pipes
       /\ encoders' = [encoders EXCEPT ![e] = None]
       /\ graphs' = [graphs EXCEPT ![g] = None]

NoHistory == [last_fit |-> None, fitted_on |-> None, tuned |-> FALSE]

Encoder(p) == encoders[pipes[p]._encoder]
Graph(p) == graphs[pipes[p]._component_graph]
IsClassifier(p) == is_classification(problem_type(pipes[p].cls))

\* PipelineBaseMeta.check_for_fit: the guard around predict, predict_proba
\* and feature_importance.
check_for_fit(p, r) ==
    IF ~pipes[p]._is_fitted THEN Raise("PipelineNotYetFittedError") ELSE r

----------------------------------------------------------------------------
(* fit *)

\* PipelineBase._fit under the metaclass's set_fit: the component graph is
\* fitted; when a component raises (the fail_at-th of the pass; none when
\* fail_at is 0) nothing else happens, and otherwise the target name and the
\* feature names are stored and the pipeline is marked fitted.
_fit(p, X, y, fail_at) ==
    LET r == ComponentGraph_fit(Graph(p), component_graph(pipes[p].cls),
                                pipes[p].parameters, pipes[p].random_seed, X, y, fail_at)
    IN /\ graphs' = [graphs EXCEPT ![pipes[p]._component_graph] = r.graph]
       /\ pipes' = IF r.err = ""
                   THEN [pipes EXCEPT ![p]._is_fitted = TRUE,
                                      ![p].input_target_name = y.name,
                                      ![p].input_feature_names = Some(X.cols)]
                   ELSE pipes

\* A variant of fit that fits the encoder and never reaches self._fit.
fit_without_base_fit(p, X, y, fail_at) ==
    /\ encoders' = [encoders EXCEPT ![pipes[p]._encoder] = LabelEncoder_fit(y)]
    /\ UNCHANGED <<graphs, pipes>>

\* A variant of fit whose encoder adds the new labels to those it holds.
fit_accumulating(p, X, y, fail_at) ==
    LET encoder == Some(SortedSeq(Range(y.vals) \cup
                                  (IF Encoder(p) = None THEN {} ELSE Range(The(Encoder(p))))))
        y_enc == _encode_targets(encoder, y).val
    IN /\ encoders' = [encoders EXCEPT ![pipes[p]._encoder] = encoder]
       /\ _fit(p, X, y_enc, fail_at)

\* A variant of fit that marks the pipeline fitted whether or not the
\* component graph was fitted.
fit_marked_on_failure(p, X, y, fail_at) ==
    LET encoder == LabelEncoder_fit(y)
        y_enc == _encode_targets(encoder, y).val
        r == ComponentGraph_fit(Graph(p), component_graph(pipes[p].cls),
                                pipes[p].parameters, pipes[p].random_seed, X, y_enc, fail_at)
    IN /\ encoders' = [encoders EXCEPT ![pipes[p]._encoder] = encoder]
       /\ graphs' = [graphs EXCEPT ![pipes[p]._component_graph] = r.graph]
       /\ pipes' = [pipes EXCEPT ![p]._is_fitted = TRUE,
                                  ![p].input_target_name = y.name,
                                  ![p].input_feature_names = Some(X.cols)]

\* ClassificationPipeline.fit
fit(p, X, y, fail_at) ==
    LET encoder == LabelEncoder_fit(y)
        y_enc == _encode_targets(encoder, y).val
    IN /\ encoders' = [encoders EXCEPT ![pipes[p]._encoder] = encoder]
       /\ _fit(p, X, y_enc, fail_at)

\* RegressionPipeline.fit: the target is not encoded.
RegressionPipeline_fit(p, X, y, fail_at) ==
    /\ UNCHANGED encoders
    /\ _fit(p, X, y, fail_at)

\* The trace of the pass a fit call makes over the component graph.
FitTrace(p, X, fail_at) ==
    LET decls == component_graph(pipes[p].cls) IN
    run_pass(decls, compute_order(decls), ColumnNames(X), "fit", fail_at, NoCache, <<>>).trace

\* A fit call in which the fail_at-th component invoked raises (none when
\* fail_at is 0).
FitAt(p, X, y, fail_at) ==
    /\ p \in DOMAIN pipes
    /\ fail_at \in 0..Len(component_graph(pipes[p].cls))
    /\ IF IsClassifier(p) THEN fit(p, X, y, fail_at)
                          ELSE RegressionPipeline_fit(p, X, y, fail_at)
    /\ last' = [op |-> "fit", pipe |-> p,
                args |-> [X |-> X, y |-> y, before |-> { d.y : d \in history[p].fitted_on }],
                res |-> IF fail_at = 0 THEN Ok(<<>>) ELSE Raise("Exception: component fit failed"),
                calls |-> FitTrace(p, X, fail_at)]
    /\ history' = [history EXCEPT
                      ![p].last_fit = Some([X |-> X, y |-> y, ok |-> fail_at = 0]),
                      ![p].fitted_on = IF fail_at = 0 THEN Some([X |-> X, y |-> y]) ELSE @]

\* A fit call that returns (graph_ok) or in which some component raises.
Fit(p, X, y, graph_ok) ==
    /\ p \in DOMAIN pipes
    /\ \E fail_at \in (IF graph_ok THEN {0} ELSE 1..Len(component_graph(pipes[p].cls))) :
          FitAt(p, X, y, fail_at)

----------------------------------------------------------------------------
(* Inference *)

\* ClassificationPipeline._predict
_predict(p, X) == ComponentGraph_predict(Graph(p), X)

\* A variant of predict that returns the component graph's predictions as
\* they are, without _decode_targets.
predict_undecoded(p, X) ==
    LET predictions == _predict(p, X) IN
    IF predictions.err # "" THEN predictions
    ELSE Ok([vals |-> predictions.val, name |-> pipes[p].input_target_name])

\* ClassificationPipeline.predict
predict(p, X) ==
    LET predictions == _predict(p, X) IN
    IF predictions.err # "" THEN predictions
    ELSE LET decoded == _decode_targets(Encoder(p), predictions.val) IN
         IF decoded.err # "" THEN decoded
         ELSE Ok([vals |-> decoded.val, name |-> pipes[p].input_target_name])

\* RegressionPipeline.predict
RegressionPipeline_predict(p, X) ==
    LET predictions == ComponentGraph_predict(Graph(p), X) IN
    IF predictions.err # "" THEN predictions
    ELSE Ok([vals |-> predictions.val, name |-> pipes[p].input_target_name])

\* A variant of predict_proba that leaves the estimator's own column labels,
\* the integer codes, on the table.
predict_proba_unlabelled(p, X) ==
    LET proba == Estimator_predict_proba(Graph(p), X) IN
    IF proba.err # "" THEN proba
    ELSE Ok([columns |-> [i \in DOMAIN proba.val |-> i - 1], data |-> proba.val])

\* ClassificationPipeline.predict_proba: the estimator's probability table
\* takes the encoder's classes_ as its column labels; pandas refuses labels
\* whose number differs from the number of columns.
predict_proba(p, X) ==
    LET proba == Estimator_predict_proba(Graph(p), X) IN
    IF proba.err # "" THEN proba
    ELSE IF Encoder(p) = None
         THEN Raise("AttributeError: 'LabelEncoder' object has no attribute 'classes_'")
    ELSE IF Len(The(Encoder(p))) # Len(proba.val)
         THEN Raise("ValueError: Length mismatch")
    ELSE Ok([columns |-> The(Encoder(p)), data |-> proba.val])

\* PipelineBase.feature_importance
feature_importance(p) == ComponentGraph_feature_importance(Graph(p))

\* The calls as a user makes them, under the fitted guard.
Call_predict(p, X) ==
    check_for_fit(p, IF IsClassifier(p) THEN predict(p, X) ELSE RegressionPipeline_predict(p, X))
Call_predict_proba(p, X) == check_for_fit(p, predict_proba(p, X))
Call_feature_importance(p) == check_for_fit(p, feature_importance(p))

\* The trace of the pass a predict or predict_proba call makes over the
\* component graph; the fitted guard turns the call away before any pass.
PredictTrace(p, X) ==
    LET decls == component_graph(pipes[p].cls) IN
    IF ~pipes[p]._is_fitted THEN <<>>
    ELSE run_pass(decls, compute_order(decls), ColumnNames(X), "predict", 0, NoCache, <<>>).trace

Predict(p, X) ==
    /\ p \in DOMAIN pipes
    /\ last' = [op |-> "predict", pipe |-> p, args |-> [X |-> X],
                res |-> Call_predict(p, X), calls |-> PredictTrace(p, X)]
    /\ UNCHANGED <<pipes, encoders, graphs, history>>

PredictProba(p, X) ==
    /\ p \in DOMAIN pipes
    /\ IsClassifier(p)
    /\ last' = [op |-> "predict_proba", pipe |-> p, args |-> [X |-> X],
                res |-> Call_predict_proba(p, X), calls |-> PredictTrace(p, X)]
    /\ UNCHANGED <<pipes, encoders, graphs, history>>

FeatureImportance(p) ==
    /\ p \in DOMAIN pipes
    /\ last' = [op |-> "feature_importance", pipe |-> p, args |-> <<>>,
                res |-> Call_feature_importance(p), calls |-> <<>>]
    /\ UNCHANGED <<pipes, encoders, graphs, history>>

\* A read of the classes_ property; it is not under the fitted guard.
GetClasses(p) ==
    /\ p \in DOMAIN pipes
    /\ IsClassifier(p)
    /\ last' = [op |-> "classes_", pipe |-> p, args |-> <<>>,
                res |-> classes_(Encoder(p)), calls |-> <<>>]
    /\ UNCHANGED <<pipes, encoders, graphs, history>>

\* Calls of _encode_targets and _decode_targets on a pipeline.
EncodeTargets(p, y) ==
    /\ p \in DOMAIN pipes
    /\ IsClassifier(p)
    /\ last' = [op |-> "_encode_targets", pipe |-> p, args |-> [y |-> y],
                res |-> _encode_targets(Encoder(p), y), calls |-> <<>>]
    /\ UNCHANGED <<pipes, encoders, graphs, history>>

DecodeTargets(p, codes) ==
    /\ p \in DOMAIN pipes
    /\ IsClassifier(p)
    /\ last' = [op |-> "_decode_targets", pipe |-> p, args |-> [y |-> codes],
                res |-> _decode_targets(Encoder(p), codes), calls |-> <<>>]
    /\ UNCHANGED <<pipes, encoders, graphs, history>>

----------------------------------------------------------------------------
(* clone and equality *)

\* A variant of clone that leaves the random seed at its default.
clone_default_seed(p, q) == Construct(q, pipes[p].cls, pipes[p].parameters, 0)

\* PipelineBase.clone: a new object of the same class, constructed from the
\* source's parameters and random seed.
clone(p, q) == Construct(q, pipes[p].cls, pipes[p].parameters, pipes[p].random_seed)

Clone(p, q) ==
    /\ p \in DOMAIN pipes
    /\ q \in PipeIds \ DOMAIN pipes
    /\ clone(p, q)
    /\ last' = [op |-> "clone", pipe |-> p, args |-> [new |-> q], res |-> Ok(<<>>),
                calls |-> <<>>]
    /\ history' = [history EXCEPT ![q] = NoHistory]

\* cls(parameters, random_seed): when the construction of the component
\* graph raises, the constructor raises and there is no object.
New(q, cls, parameters, random_seed) ==
    LET built == ComponentGraph__init__(cls, parameters) IN
    /\ q \in PipeIds \ DOMAIN pipes
    /\ IF built.err = ""
       THEN Construct(q, cls, parameters, random_seed)
       ELSE UNCHANGED <<pipes, encoders, graphs>>
    /\ last' = [op |-> "new", pipe |-> q,
                args |-> [cls |-> cls, parameters |-> parameters, random_seed |-> random_seed],
                res |-> IF built.err = "" THEN Ok(<<>>) ELSE built, calls |-> <<>>]
    /\ history' = [history EXCEPT ![q] = NoHistory]

\* PipelineBase.__eq__: the concrete class, the random seed, the parameters,
\* the fitted flag, and the names stored by fit: of the input features and
\* of the target.
__eq__(a, b) ==
    /\ a.cls = b.cls
    /\ a.random_seed = b.random_seed
    /\ a.parameters = b.parameters
    /\ a._is_fitted = b._is_fitted
    /\ a.input_feature_names = b.input_feature_names
    /\ a.input_target_name = b.input_target_name

----------------------------------------------------------------------------
(* score *)

\* PipelineBase.create_objectives: each requested name is looked up in
\* order.  "cost benefit matrix" names an objective that must be
\* instantiated by the caller; a name that matches no objective is not found.
RECURSIVE create_objectives(_)
create_objectives(names) ==
    IF names = <<>> THEN Ok(<<>>)
    ELSE IF Head(names) = "cost benefit matrix" THEN Raise("ObjectiveCreationError")
    ELSE IF Head(names) \notin ObjectiveNames THEN Raise("ObjectiveNotFoundError")
    ELSE LET rest == create_objectives(Tail(names)) IN
         IF rest.err # "" THEN rest
         ELSE Ok(<<get_objective(Head(names))>> \o rest.val)

\* A variant of _compute_predictions that computes labels only when no
\* objective needs probabilities (elif for the second if).
_compute_predictions_elif(p, X, objectives) ==
    LET need_proba == \E i \in DOMAIN objectives : objectives[i].score_needs_proba
        need_labels == ~need_proba /\ \E i \in DOMAIN objectives : ~objectives[i].score_needs_proba
        proba == Call_predict_proba(p, X)
        labels == ComponentGraph_predict(Graph(p), X)
    IN IF need_proba /\ proba.err # ""
       THEN [err |-> proba.err, calls |-> <<"predict_proba">>,
             y_predicted |-> None, y_predicted_proba |-> None]
       ELSE IF need_labels /\ labels.err # ""
       THEN [err |-> labels.err, calls |-> <<"_predict">>,
             y_predicted |-> None, y_predicted_proba |-> None]
       ELSE [err |-> "",
             calls |-> IF need_proba THEN <<"predict_proba">>
                       ELSE IF need_labels THEN <<"_predict">> ELSE <<>>,
             y_predicted |-> IF need_labels THEN Some(labels.val) ELSE None,
             y_predicted_proba |-> IF need_proba THEN Some(proba.val) ELSE None]

\* A variant of _compute_predictions with the two conditions exchanged:
\* probabilities when some objective needs labels, and labels when some
\* objective needs probabilities.
_compute_predictions_swapped(p, X, objectives) ==
    LET need_proba == \E i \in DOMAIN objectives : ~objectives[i].score_needs_proba
        need_labels == \E i \in DOMAIN objectives : objectives[i].score_needs_proba
        proba == Call_predict_proba(p, X)
        labels == ComponentGraph_predict(Graph(p), X)
        calls1 == IF need_proba THEN <<"predict_proba">> ELSE <<>>
        calls2 == IF need_labels THEN calls1 \o <<"_predict">> ELSE calls1
    IN IF need_proba /\ proba.err # ""
       THEN [err |-> proba.err, calls |-> calls1,
             y_predicted |-> None, y_predicted_proba |-> None]
       ELSE IF need_labels /\ labels.err # ""
       THEN [err |-> labels.err, calls |-> calls2,
             y_predicted |-> None, y_predicted_proba |-> None]
       ELSE [err |-> "", calls |-> calls2,
             y_predicted |-> IF need_labels THEN Some(labels.val) ELSE None,
             y_predicted_proba |-> IF need_proba THEN Some(proba.val) ELSE None]

\* A variant of _compute_predictions that computes, for each objective in
\* turn, the prediction that objective needs.
_compute_predictions_per_objective(p, X, objectives) ==
    LET proba == Call_predict_proba(p, X)
        labels == _predict(p, X)
        need_proba == \E i \in DOMAIN objectives : objectives[i].score_needs_proba
        need_labels == \E i \in DOMAIN objectives : ~objectives[i].score_needs_proba
        calls == [i \in DOMAIN objectives |->
                    IF objectives[i].score_needs_proba THEN "predict_proba" ELSE "_predict"]
    IN IF need_proba /\ proba.err # ""
       THEN [err |-> proba.err, calls |-> calls,
             y_predicted |-> None, y_predicted_proba |-> None]
       ELSE IF need_labels /\ labels.err # ""
       THEN [err |-> labels.err, calls |-> calls,
             y_predicted |-> None, y_predicted_proba |-> None]
       ELSE [err |-> "", calls |-> calls,
             y_predicted |-> IF need_labels THEN Some(labels.val) ELSE None,
             y_predicted_proba |-> IF need_proba THEN Some(proba.val) ELSE None]

\* ClassificationPipeline._compute_predictions (time_series is False):
\* probabilities first, then labels, each only when some objective needs it.
\* calls lists the inference calls made, in order.
_compute_predictions(p, X, objectives) ==
    LET need_proba == \E i \in DOMAIN objectives : objectives[i].score_needs_proba
        need_labels == \E i \in DOMAIN objectives : ~objectives[i].score_needs_proba
        proba == Call_predict_proba(p, X)
        labels == _predict(p, X)
        calls1 == IF need_proba THEN <<"predict_proba">> ELSE <<>>
        calls2 == IF need_labels THEN calls1 \o <<"_predict">> ELSE calls1
    IN IF need_proba /\ proba.err # ""
       THEN [err |-> proba.err, calls |-> calls1,
             y_predicted |-> None, y_predicted_proba |-> None]
       ELSE IF need_labels /\ labels.err # ""
       THEN [err |-> labels.err, calls |-> calls2,
             y_predicted |-> None, y_predicted_proba |-> None]
       ELSE [err |-> "", calls |-> calls2,
             y_predicted |-> IF need_labels THEN Some(labels.val) ELSE None,
             y_predicted_proba |-> IF need_proba THEN Some(proba.val) ELSE None]

\* An objective's score: a function of the targets and of the labels or
\* the probabilities it is given, whichever it needs.
objective_score(objective, y, y_predicted, y_predicted_proba) ==
    IF objective.score_needs_proba
    THEN Sum(The(y_predicted_proba).data)
    ELSE LET pred == The(y_predicted) IN
         Cardinality({ i \in DOMAIN y.vals : i \in DOMAIN pred /\ pred[i] = y.vals[i] })

\* The text of the exception an objective raises when its evaluation fails.
FailureText(name) == "boom in " \o name

\* PipelineBase._score_all_objectives: every objective is evaluated; one
\* that raises is recorded with its exception and the others with their
\* scores.  An objective raises when its name is in failing, and when the
\* labels or probabilities it needs were not computed.  Any failure ends in
\* one PipelineScoreError that carries both dictionaries and a message
\* listing the failures.
RECURSIVE score_fold(_, _, _, _, _, _, _)
score_fold(objectives, y, y_predicted, y_predicted_proba, failing, scored, exceptions) ==
    IF objectives = <<>> THEN [scored_successfully |-> scored, exceptions |-> exceptions]
    ELSE LET o == Head(objectives)
             missing == IF o.score_needs_proba THEN y_predicted_proba = None
                                               ELSE y_predicted = None
         IN
         IF o.name \in failing \/ missing
         THEN score_fold(Tail(objectives), y, y_predicted, y_predicted_proba, failing,
                         scored,
                         DictPut(exceptions, o.name,
                                 IF o.name \in failing THEN FailureText(o.name)
                                 ELSE "TypeError in " \o o.name))
         ELSE score_fold(Tail(objectives), y, y_predicted, y_predicted_proba, failing,
                         DictPut(scored, o.name,
                                 objective_score(o, y, y_predicted, y_predicted_proba)),
                         exceptions)

_score_all_objectives(y, y_predicted, y_predicted_proba, objectives, failing) ==
    LET r == score_fold(objectives, y, y_predicted, y_predicted_proba, failing, <<>>, <<>>) IN
    IF r.exceptions # <<>>
    THEN [err |-> "PipelineScoreError",
          val |-> [scored_successfully |-> r.scored_successfully,
                   exceptions |-> r.exceptions,
                   message |-> [i \in DOMAIN r.exceptions |-> r.exceptions[i][2]]]]
    ELSE Ok(r.scored_successfully)

\* What score hands to the evaluation of the objectives.
NothingGiven == [y |-> None, y_predicted |-> None, y_predicted_proba |-> None]

\* A variant of score that decodes the label predictions before the
\* objectives are evaluated.
score_decoded_predictions(p, X, y, names, failing) ==
    LET objectives == create_objectives(names) IN
    IF objectives.err # ""
    THEN [res |-> Raise(objectives.err), calls |-> <<>>, evaluated |-> FALSE, given |-> NothingGiven]
    ELSE LET y_enc == _encode_targets(Encoder(p), y) IN
    IF y_enc.err # ""
    THEN [res |-> Raise(y_enc.err), calls |-> <<>>, evaluated |-> FALSE, given |-> NothingGiven]
    ELSE LET c == _compute_predictions(p, X, objectives.val) IN
    IF c.err # ""
    THEN [res |-> Raise(c.err), calls |-> c.calls, evaluated |-> FALSE, given |-> NothingGiven]
    ELSE LET decoded == IF c.y_predicted = None THEN None
                        ELSE Some(_decode_targets(Encoder(p), The(c.y_predicted)).val)
         IN [res |-> _score_all_objectives(y_enc.val, decoded, c.y_predicted_proba,
                                           objectives.val, failing),
             calls |-> c.calls, evaluated |-> TRUE,
             given |-> [y |-> Some(y_enc.val), y_predicted |-> decoded,
                        y_predicted_proba |-> c.y_predicted_proba]]

\* A variant of score that computes the predictions before it encodes the
\* target.
score_predictions_first(p, X, y, names, failing) ==
    LET objectives == create_objectives(names) IN
    IF objectives.err # ""
    THEN [res |-> Raise(objectives.err), calls |-> <<>>, evaluated |-> FALSE, given |-> NothingGiven]
    ELSE LET c == _compute_predictions(p, X, objectives.val)
             y_enc == _encode_targets(Encoder(p), y) IN
    IF c.err # ""
    THEN [res |-> Raise(c.err), calls |-> c.calls, evaluated |-> FALSE, given |-> NothingGiven]
    ELSE IF y_enc.err # ""
    THEN [res |-> Raise(y_enc.err), calls |-> c.calls, evaluated |-> FALSE, given |-> NothingGiven]
    ELSE [res |-> _score_all_objectives(y_enc.val, c.y_predicted, c.y_predicted_proba,
                                        objectives.val, failing),
          calls |-> c.calls, evaluated |-> TRUE,
          given |-> [y |-> Some(y_enc.val), y_predicted |-> c.y_predicted,
                     y_predicted_proba |-> c.y_predicted_proba]]

\* ClassificationPipeline.score.  The result also says which inference
\* calls were made, whether the objectives were evaluated, and what was
\* handed to their evaluation.
score(p, X, y, names, failing) ==
    LET objectives == create_objectives(names) IN
    IF objectives.err # ""
    THEN [res |-> Raise(objectives.err), calls |-> <<>>, evaluated |-> FALSE, given |-> NothingGiven]
    ELSE LET y_enc == _encode_targets(Encoder(p), y) IN
    IF y_enc.err # ""
    THEN [res |-> Raise(y_enc.err), calls |-> <<>>, evaluated |-> FALSE, given |-> NothingGiven]
    ELSE LET c == _compute_predictions(p, X, objectives.val) IN
    IF c.err # ""
    THEN [res |-> Raise(c.err), calls |-> c.calls, evaluated |-> FALSE, given |-> NothingGiven]
    ELSE [res |-> _score_all_objectives(y_enc.val, c.y_predicted, c.y_predicted_proba,
                                        objectives.val, failing),
          calls |-> c.calls, evaluated |-> TRUE,
          given |-> [y |-> Some(y_enc.val), y_predicted |-> c.y_predicted,
                     y_predicted_proba |-> c.y_predicted_proba]]

\* A variant of a score call that leaves the encoder fitted on the target
\* the call was given.
Score_refitting(p, X, y, names, failing) ==
    /\ p \in DOMAIN pipes
    /\ IsClassifier(p)
    /\ failing \subseteq Range(names)
    /\ LET r == score(p, X, y, names, failing) IN
       last' = [op |-> "score", pipe |-> p,
                args |-> [X |-> X, y |-> y, objectives |-> names, failing |-> failing,
                          evaluated |-> r.evaluated, given |-> r.given],
                res |-> r.res, calls |-> r.calls]
    /\ encoders' = [encoders EXCEPT ![pipes[p]._encoder] = LabelEncoder_fit(y)]
    /\ UNCHANGED <<pipes, graphs, history>>

\* A call of score: it changes nothing of the pipeline.
Score(p, X, y, names, failing) ==
    /\ p \in DOMAIN pipes
    /\ IsClassifier(p)
    /\ failing \subseteq Range(names)
    /\ LET r == score(p, X, y, names, failing) IN
       last' = [op |-> "score", pipe |-> p,
                args |-> [X |-> X, y |-> y, objectives |-> names, failing |-> failing,
                          evaluated |-> r.evaluated, given |-> r.given],
                res |-> r.res, calls |-> r.calls]
    /\ UNCHANGED <<pipes, encoders, graphs, history>>

----------------------------------------------------------------------------
(* Threshold tuning *)

\* 0.5, the threshold tune_binary_threshold starts from.
DefaultThreshold == 50

\* PipelineBase.can_tune_threshold_with_objective
can_tune_threshold_with_objective(p, objective) ==
    /\ is_binary(problem_type(pipes[p].cls))
    /\ is_defined_for_problem_type(objective, problem_type(pipes[p].cls))
    /\ objective.can_optimize_threshold

\* A variant of optimize_threshold that assigns the threshold before it
\* checks that tuning is permitted.
optimize_threshold_assign_first(p, threshold, X, y, y_pred_proba, objective, t) ==
    IF can_tune_threshold_with_objective(p, objective)
    THEN LET targets == _encode_targets(Encoder(p), y) IN
         IF targets.err # ""
         THEN [res |-> targets, threshold |-> threshold]
         ELSE [res |-> Ok(<<>>), threshold |-> Some(t)]
    ELSE [res |-> Raise("ValueError: Problem type must be binary and objective must be optimizable."),
          threshold |-> Some(t)]

\* A variant of optimize_threshold that keeps the result of the threshold
\* search in a local name and never assigns self.threshold.
optimize_threshold_discard(p, threshold, X, y, y_pred_proba, objective, t) ==
    IF can_tune_threshold_with_objective(p, objective)
    THEN LET targets == _encode_targets(Encoder(p), y) IN
         IF targets.err # ""
         THEN [res |-> targets, threshold |-> threshold]
         ELSE [res |-> Ok(<<>>), threshold |-> threshold]
    ELSE [res |-> Raise("ValueError: Problem type must be binary and objective must be optimizable."),
          threshold |-> threshold]

\* ClassificationPipeline.optimize_threshold, on a pipeline whose threshold
\* is `threshold` when the call starts: the outcome and the threshold when
\* the call ends.  t is what the objective's threshold search returns.
optimize_threshold(p, threshold, X, y, y_pred_proba, objective, t) ==
    IF can_tune_threshold_with_objective(p, objective)
    THEN LET targets == _encode_targets(Encoder(p), y) IN
         IF targets.err # ""
         THEN [res |-> targets, threshold |-> threshold]
         ELSE [res |-> Ok(<<>>), threshold |-> Some(t)]
    ELSE [res |-> Raise("ValueError: Problem type must be binary and objective must be optimizable."),
          threshold |-> threshold]

OptimizeThreshold(p, X, y, objective, t) ==
    /\ p \in DOMAIN pipes
    /\ IsClassifier(p)
    /\ LET y_pred_proba == Call_predict_proba(p, X).val
           r == optimize_threshold(p, pipes[p].threshold, X, y, y_pred_proba, objective, t)
       IN /\ pipes' = [pipes EXCEPT ![p].threshold = r.threshold]
          /\ last' = [op |-> "optimize_threshold", pipe |-> p,
                      args |-> [X |-> X, y |-> y, objective |-> objective,
                                before |-> pipes[p].threshold],
                      res |-> r.res, calls |-> <<>>]
    /\ history' = [history EXCEPT ![p].tuned = TRUE]
    /\ UNCHANGED <<encoders, graphs>>

\* A call made on the pipeline by tune_binary_threshold: what was called,
\* the pipeline's threshold at that moment, and the argument of interest
\* (the table for predict_proba, the probabilities for optimize_threshold).
PipelineCall(op, threshold, arg) == [op |-> op, threshold |-> threshold, arg |-> arg]

\* The body of tune_binary_threshold once its condition holds, on a pipeline
\* whose threshold is `threshold` when predict_proba is called.
tune_with_threshold(p, threshold, objective, X, y, t) ==
    IF X = None
    THEN [res |-> Ok(<<>>), threshold |-> threshold, calls |-> <<>>]
    ELSE LET y_predict_proba == Call_predict_proba(p, The(X))
             call1 == PipelineCall("predict_proba", threshold, The(X))
         IN
         IF y_predict_proba.err # ""
         THEN [res |-> y_predict_proba, threshold |-> threshold, calls |-> <<call1>>]
         ELSE IF Len(y_predict_proba.val.data) < 2
         THEN [res |-> Raise("IndexError: single positional indexer is out-of-bounds"),
               threshold |-> threshold, calls |-> <<call1>>]
         ELSE LET column == y_predict_proba.val.data[2]
                  r == optimize_threshold(p, threshold, The(X), y, column, objective, t)
              IN [res |-> r.res, threshold |-> r.threshold,
                  calls |-> <<call1, PipelineCall("optimize_threshold", threshold, column)>>]

\* A variant of tune_binary_threshold without the assignment of 0.5.
tune_binary_threshold_no_reset(p, objective, pt, X, y, t) ==
    IF is_binary(pt) /\ is_defined_for_problem_type(objective, pt)
       /\ objective.can_optimize_threshold
    THEN tune_with_threshold(p, pipes[p].threshold, objective, X, y, t)
    ELSE [res |-> Ok(<<>>), threshold |-> pipes[p].threshold, calls |-> <<>>]

\* A variant of tune_binary_threshold that assigns 0.5 before it tests its
\* condition.
tune_binary_threshold_reset_first(p, objective, pt, X, y, t) ==
    IF is_binary(pt) /\ is_defined_for_problem_type(objective, pt)
       /\ objective.can_optimize_threshold
    THEN tune_with_threshold(p, Some(DefaultThreshold), objective, X, y, t)
    ELSE [res |-> Ok(<<>>), threshold |-> Some(DefaultThreshold), calls |-> <<>>]

\* tune_binary_threshold(pipeline, objective, problem_type, X_threshold_tuning,
\* y_threshold_tuning): X is the optional tuning split.  The outcome, the
\* pipeline's threshold when the call ends, and the calls made on the pipeline.
tune_binary_threshold(p, objective, pt, X, y, t) ==
    IF is_binary(pt) /\ is_defined_for_problem_type(objective, pt)
       /\ objective.can_optimize_threshold
    THEN tune_with_threshold(p, Some(DefaultThreshold), objective, X, y, t)
    ELSE [res |-> Ok(<<>>), threshold |-> pipes[p].threshold, calls |-> <<>>]

TuneBinaryThreshold(p, objective, pt, X, y, t) ==
    /\ p \in DOMAIN pipes
    /\ IsClassifier(p)
    /\ LET r == tune_binary_threshold(p, objective, pt, X, y, t) IN
       /\ pipes' = [pipes EXCEPT ![p].threshold = r.threshold]
       /\ last' = [op |-> "tune_binary_threshold", pipe |-> p,
                   args |-> [X |-> X, y |-> y, objective |-> objective, problem_type |-> pt,
                             before |-> pipes[p].threshold],
                   res |-> r.res, calls |-> r.calls]
    /\ history' = [history EXCEPT ![p].tuned = TRUE]
    /\ UNCHANGED <<encoders, graphs>>

----------------------------------------------------------------------------
(* Data splitters *)

\* ProblemTypes
ProblemTypes == {"binary", "multiclass", "regression",
                 "time series regression", "time series binary", "time series multiclass"}

is_time_series(pt) ==
    pt \in {"time series regression", "time series binary", "time series multiclass"}

_LARGE_DATA_ROW_THRESHOLD == 100000

\* 0.75, as a percentage.
_LARGE_DATA_PERCENT_VALIDATION == 75

\* dict.get: the value under the key, or None.
get(d, key) == IF key \in DOMAIN d THEN Some(d[key]) ELSE None

\* deprecate_arg: the value given under the old name, when one is given,
\* and the value under the new name otherwise.
deprecate_arg(random_state, random_seed) ==
    IF random_state # None THEN The(random_state) ELSE random_seed

\* The splitters.
TimeSeriesSplit(n_splits, gap, max_delay) ==
    [splitter |-> "TimeSeriesSplit", n_splits |-> n_splits, gap |-> gap, max_delay |-> max_delay]
TrainingValidationSplit(test_size, shuffle) ==
    [splitter |-> "TrainingValidationSplit", test_size |-> test_size, shuffle |-> shuffle]
BalancedClassificationDataTVSplit(test_size, shuffle, random_seed) ==
    [splitter |-> "BalancedClassificationDataTVSplit", test_size |-> test_size,
     shuffle |-> shuffle, random_seed |-> random_seed]
KFold(n_splits, random_state, shuffle) ==
    [splitter |-> "KFold", n_splits |-> n_splits, random_state |-> random_state, shuffle |-> shuffle]
BalancedClassificationDataCVSplit(n_splits, random_seed, shuffle) ==
    [splitter |-> "BalancedClassificationDataCVSplit", n_splits |-> n_splits,
     random_seed |-> random_seed, shuffle |-> shuffle]

\* The part of make_data_splitter after the time series branch.
split_by_rows(rows, threshold, pt, n_splits, shuffle, seed) ==
    IF rows > threshold /\ pt = "regression"
    THEN Ok(Some(TrainingValidationSplit(_LARGE_DATA_PERCENT_VALIDATION, shuffle)))
    ELSE IF rows > threshold /\ pt \in {"binary", "multiclass"}
    THEN Ok(Some(BalancedClassificationDataTVSplit(_LARGE_DATA_PERCENT_VALIDATION, shuffle, seed)))
    ELSE IF pt = "regression"
    THEN Ok(Some(KFold(n_splits, seed, shuffle)))
    ELSE IF pt \in {"binary", "multiclass"}
    THEN Ok(Some(BalancedClassificationDataCVSplit(n_splits, seed, shuffle)))
    ELSE Ok(None)

\* A variant of make_data_splitter that asks for a configuration only when
\* it is None, and takes an empty one.
make_data_splitter_none_only(rows, pt, problem_configuration, n_splits, shuffle, random_state, random_seed) ==
    LET seed == deprecate_arg(random_state, random_seed) IN
    IF is_time_series(pt)
    THEN IF problem_configuration = None
         THEN Raise("ValueError: problem_configuration is required for time series problem types")
         ELSE Ok(Some(TimeSeriesSplit(n_splits, get(The(problem_configuration), "gap"),
                                      get(The(problem_configuration), "max_delay"))))
    ELSE split_by_rows(rows, _LARGE_DATA_ROW_THRESHOLD, pt, n_splits, shuffle, seed)

\* A variant of make_data_splitter for which the threshold itself is large.
make_data_splitter_at_threshold(rows, pt, problem_configuration, n_splits, shuffle, random_state, random_seed) ==
    LET seed == deprecate_arg(random_state, random_seed) IN
    IF is_time_series(pt)
    THEN IF problem_configuration = None \/ problem_configuration = Some(<<>>)
         THEN Raise("ValueError: problem_configuration is required for time series problem types")
         ELSE Ok(Some(TimeSeriesSplit(n_splits, get(The(problem_configuration), "gap"),
                                      get(The(problem_configuration), "max_delay"))))
    ELSE split_by_rows(rows, _LARGE_DATA_ROW_THRESHOLD - 1, pt, n_splits, shuffle, seed)

\* make_data_splitter, for a table X of the given number of rows.  A
\* configuration that is None or an empty dict is not a configuration.
make_data_splitter(rows, pt, problem_configuration, n_splits, shuffle, random_state, random_seed) ==
    LET seed == deprecate_arg(random_state, random_seed) IN
    IF is_time_series(pt)
    THEN IF problem_configuration = None \/ problem_configuration = Some(<<>>)
         THEN Raise("ValueError: problem_configuration is required for time series problem types")
         ELSE Ok(Some(TimeSeriesSplit(n_splits, get(The(problem_configuration), "gap"),
                                      get(The(problem_configuration), "max_delay"))))
    ELSE split_by_rows(rows, _LARGE_DATA_ROW_THRESHOLD, pt, n_splits, shuffle, seed)

MakeDataSplitter(rows, pt, problem_configuration, n_splits, shuffle, random_state, random_seed) ==
    /\ last' = [op |-> "make_data_splitter", pipe |-> "P",
                args |-> [rows |-> rows, problem_type |-> pt,
                          problem_configuration |-> problem_configuration,
                          n_splits |-> n_splits, shuffle |-> shuffle,
                          random_state |-> random_state, random_seed |-> random_seed],
                res |-> make_data_splitter(rows, pt, problem_configuration, n_splits, shuffle,
                                           random_state, random_seed),
                calls |-> <<>>]
    /\ UNCHANGED <<pipes, encoders, graphs, history>>

----------------------------------------------------------------------------
(* Pipeline names *)

\* The names pipelines have, in the order sorted() puts them.
PipelineNames == <<"Pipeline 1", "Pipeline 2", "Pipeline 3">>

\* pd.Series(names).value_counts(): for each name of the list, how often
\* it occurs.
value_counts(names) ==
    [n \in Range(names) |-> Cardinality({ i \in DOMAIN names : names[i] = n })]

\* The names of a list in the order of their first occurrence.
RECURSIVE Index(_)
Index(names) ==
    IF names = <<>> THEN <<>>
    ELSE LET front == Index(SubSeq(names, 1, Len(names) - 1))
             n == names[Len(names)]
         IN IF n \in Range(front) THEN front ELSE Append(front, n)

\* ", ".join of the quoted names.
RECURSIVE join(_)
join(names) ==
    IF names = <<>> THEN ""
    ELSE IF Len(names) = 1 THEN "'" \o names[1] \o "'"
    ELSE "'" \o Head(names) \o "', " \o join(Tail(names))

\* The message of the ValueError for the names listed.
DuplicateMessage(listed) ==
    "All pipeline names must be unique. The name"
      \o (IF Len(listed) > 1 THEN "s" ELSE "") \o " " \o join(listed) \o " "
      \o (IF Len(listed) > 1 THEN "were" ELSE "was") \o " repeated."

\* A variant of check_all_pipeline_names_unique that lists the duplicated
\* names in the order of their first occurrence.
check_all_pipeline_names_unique_unsorted(pipelines) ==
    LET names == [i \in DOMAIN pipelines |-> pipelines[i].name]
        name_count == value_counts(names)
        repeated(n) == name_count[n] > 1
        duplicate_names == SelectSeq(Index(names), repeated)
    IN IF duplicate_names # <<>>
       THEN [res |-> Raise("ValueError: " \o DuplicateMessage(duplicate_names)),
             listed |-> duplicate_names]
       ELSE [res |-> Ok(None), listed |-> <<>>]

\* check_all_pipeline_names_unique: the outcome and, when it raises, the
\* names its message lists.
check_all_pipeline_names_unique(pipelines) ==
    LET names == [i \in DOMAIN pipelines |-> pipelines[i].name]
        name_count == value_counts(names)
        repeated(n) == name_count[n] > 1
        duplicate_names == SelectSeq(Index(names), repeated)
        duplicates == SortedNames(duplicate_names, PipelineNames)
    IN IF duplicate_names # <<>>
       THEN [res |-> Raise("ValueError: " \o DuplicateMessage(duplicates)),
             listed |-> duplicates]
       ELSE [res |-> Ok(None), listed |-> <<>>]

CheckAllPipelineNamesUnique(pipelines) ==
    LET r == check_all_pipeline_names_unique(pipelines) IN
    /\ last' = [op |-> "check_all_pipeline_names_unique", pipe |-> "P",
                args |-> [pipelines |-> pipelines, listed |-> r.listed],
                res |-> r.res, calls |-> <<>>]
    /\ UNCHANGED <<pipes, encoders, graphs, history>>

----------------------------------------------------------------------------
(* Specifications *)

\* The state after constructing pipeline P with one of the configurations.
InitWith(classes, configurations) ==
    /\ \E cls \in classes, c \in configurations :
          pipes = ("P" :> (IF is_classification(problem_type(cls))
                           THEN __init__(cls, c.parameters, c.random_seed, "e1", "g1")
                           ELSE PipelineBase__init__(cls, c.parameters, c.random_seed, "g1")))
    /\ encoders = [e \in EncIds |-> None]
    /\ graphs = [g \in GraphIds |-> None]
    /\ last = [op |-> "new", pipe |-> "P", args |-> <<>>, res |-> Ok(<<>>), calls |-> <<>>]
    /\ history = [p \in PipeIds |-> NoHistory]

Configurations == [parameters : ParameterSets, random_seed : Seeds]

\* A default and a non-default configuration.
TwoConfigurations == { [parameters |-> [C |-> 1], random_seed |-> 0],
                       [parameters |-> [C |-> 2], random_seed |-> 1] }

\* Targets of each kind: the plain one; one with other, unsorted values;
\* one with the same values and a name.
Y1 == [vals |-> <<1, 2>>, name |-> None]
Y2 == [vals |-> <<3, 2>>, name |-> None]
Y3 == [vals |-> <<1, 2>>, name |-> Some("target")]

\* The names a caller asks score for: objectives of binary problems, whose
\* scores need labels (F1, Precision) or probabilities (Log Loss Binary),
\* a name that does not resolve, and the name of an objective that must be
\* instantiated by the caller.
RequestNames == {"F1", "Log Loss Binary", "cost benefit", "cost benefit matrix"}

\* The objectives handed to threshold tuning: every combination of defined
\* for binary problems or not, able to optimize a threshold or not.
TuningObjectives == { get_objective(n) : n \in {"F1", "Log Loss Binary", "F1 Macro", "Custom Tunable"} }

FitOn(P, XS, YS) == \E p \in P, X \in XS, y \in YS, graph_ok \in BOOLEAN : Fit(p, X, y, graph_ok)

\* Fit calls on given pairs of features and target, with given components
\* raising (0: none).
FitOnAt(P, data, failures) ==
    \E p \in P, d \in data, fail_at \in failures : FitAt(p, d[1], d[2], fail_at)

\* The life of a pipeline and of its clone: fit, inference, clone.
DoFit == FitOnAt(PipeIds, {<<XA, Y1>>, <<XB, Y2>>}, 0..2)
DoPredict == \E p \in PipeIds, X \in {XA, XB} : Predict(p, X)
DoPredictProba == \E p \in PipeIds, X \in {XA, XB} : PredictProba(p, X)
DoFeatureImportance == \E p \in PipeIds : FeatureImportance(p)
DoClone == \E p \in PipeIds, q \in PipeIds : Clone(p, q)

Init == InitWith({"BinaryPipeline", "MulticlassPipeline", "RegressionPipeline"}, TwoConfigurations)
Next == DoFit \/ DoPredict \/ DoPredictProba \/ DoFeatureImportance \/ DoClone
Spec == Init /\ [][Next]_vars

\* Scoring a binary classification pipeline.
ScoreFit == FitOn({"P"}, {XA}, {Y1, Y2})
DoScore == \E y \in {Y1, Y2}, names \in SeqsUpTo(RequestNames, MaxObjectives) :
             \E failing \in SUBSET (Range(names) \cap ObjectiveNames) :
               Score("P", XB, y, names, failing)

InitScore == InitWith({"BinaryPipeline"}, {[parameters |-> [C |-> 1], random_seed |-> 0]})
NextScore == ScoreFit \/ DoScore
SpecScore == InitScore /\ [][NextScore]_vars

\* Two pipelines, constructed separately or by clone, and fitted.
EqFit == FitOnAt(PipeIds, Xs \X {Y1, Y3}, {0, 1})
EqNew == \E cls \in {"BinaryPipeline", "BinarySubPipeline", "RegressionPipeline"}, c \in Configurations :
            New("Q", cls, c.parameters, c.random_seed)
EqClone == Clone("P", "Q")

InitEq == InitWith({"BinaryPipeline"}, {[parameters |-> [C |-> 1], random_seed |-> 0]})
NextEq == EqNew \/ EqClone \/ EqFit
SpecEq == InitEq /\ [][NextEq]_vars

\* Threshold tuning of a classification pipeline.
ThresholdFit == FitOn({"P"}, {XA}, {Y1, Y2})
ThresholdPredictProba == PredictProba("P", XA)
DoOptimizeThreshold == \E y \in {Y1, Y2}, o \in TuningObjectives, t \in ThresholdChoices :
                          OptimizeThreshold("P", XA, y, o, t)
DoTuneBinaryThreshold ==
    \E o \in TuningObjectives, pt \in {"binary", "multiclass"},
       X \in {None, Some(XA)}, y \in {Y1, Y2}, t \in ThresholdChoices :
          TuneBinaryThreshold("P", o, pt, X, y, t)

InitThreshold == InitWith({"BinaryPipeline", "MulticlassPipeline"}, {[parameters |-> [C |-> 1], random_seed |-> 0]})
NextThreshold == ThresholdFit \/ ThresholdPredictProba \/ DoOptimizeThreshold \/ DoTuneBinaryThreshold
SpecThreshold == InitThreshold /\ [][NextThreshold]_vars

\* Targets and their encoding: a classification pipeline is fitted on targets
\* of two or three classes, and its labels, predictions and encoding are read.
MaxLabel == 5
LabelValues == 1..MaxLabel
XD == [cols |-> 1, vals |-> 1, rows |-> 3]
Y4 == [vals |-> <<5, 3, 4>>, name |-> Some("target")]
LabelsData == { <<XA, Y1>>, <<XA, Y2>>, <<XA, Y3>>, <<XD, Y4>> }

LabelsFit == \E d \in LabelsData, graph_ok \in BOOLEAN : Fit("P", d[1], d[2], graph_ok)
LabelsPredict == \E X \in {XA, XB} : Predict("P", X)
LabelsPredictProba == \E X \in {XA, XB} : PredictProba("P", X)
LabelsGetClasses == GetClasses("P")
LabelsEncode == \E v \in LabelValues : EncodeTargets("P", [vals |-> <<v>>, name |-> None])
LabelsDecode == \E c \in 0..2 : DecodeTargets("P", <<c>>)

InitLabels == InitWith({"BinaryPipeline", "MulticlassPipeline"}, {[parameters |-> [C |-> 1], random_seed |-> 0]})
NextLabels == LabelsFit \/ LabelsPredict \/ LabelsPredictProba \/ LabelsGetClasses
                 \/ LabelsEncode \/ LabelsDecode
SpecLabels == InitLabels /\ [][NextLabels]_vars

\* Component graphs of each shape: a pipeline over a linear list, over the
\* tests' nonlinear mapping, or over a mapping declared child first is
\* fitted, with any of its components raising or none, and used.
GraphData == { <<XA, Y1>>, <<XC, Y2>> }

GraphFit == FitOnAt({"P"}, GraphData, 0..Len(NonlinearGraph))
GraphPredict == \E X \in {XA, XC} : Predict("P", X)
GraphPredictProba == \E X \in {XA, XC} : PredictProba("P", X)
GraphFeatureImportance == FeatureImportance("P")

InitGraph == InitWith({"BinaryPipeline", "NonlinearBinaryPipeline", "DiamondBinaryPipeline"},
                      {[parameters |-> [C |-> 1], random_seed |-> 0]})
NextGraph == GraphFit \/ GraphPredict \/ GraphPredictProba \/ GraphFeatureImportance
SpecGraph == InitGraph /\ [][NextGraph]_vars

\* Construction, from valid and invalid declarations and parameters: the
\* parameters of the tests (none; a for the mock component; a parameter the
\* estimator does not have) and others, and the use of what was constructed.
ConstructionParameters ==
    { [C |-> 1],
      [C |-> 1, components |-> ("Mock Component" :> {"a"})],
      [C |-> 1, components |-> ("Mock Component" :> {"a", "b"})],
      [C |-> 1, components |-> ("Mock Component" :> {"b"})],
      [C |-> 1, components |-> ("Estimator" :> {"cool_parameter"})],
      [C |-> 1, components |-> ("Estimator" :> {"penalty"})],
      [C |-> 1, components |-> ("Mock Component" :> {"a"}) @@ ("Estimator" :> {"cool_parameter"})] }

ConstructNew ==
    \E cls \in {"BinaryPipeline", "FakePipeline", "TestPipeline"},
       parameters \in ConstructionParameters, random_seed \in Seeds :
          New("Q", cls, parameters, random_seed)
ConstructFit == FitOnAt(PipeIds, {<<XA, Y1>>, <<XB, Y2>>}, {0, 1})
ConstructPredict == \E p \in PipeIds : Predict(p, XA)

InitConstruct == InitWith({"BinaryPipeline"}, {[parameters |-> [C |-> 1], random_seed |-> 0]})
NextConstruct == ConstructNew \/ ConstructFit \/ ConstructPredict
SpecConstruct == InitConstruct /\ [][NextConstruct]_vars

\* Lists of pipelines, given by their names, checked for unique names.
MaxPipelines == 4

DoCheckNames ==
    \E names \in SeqsUpTo(Range(PipelineNames), MaxPipelines) :
        CheckAllPipelineNamesUnique([i \in DOMAIN names |-> [name |-> names[i]]])

InitNames == InitWith({"BinaryPipeline"}, {[parameters |-> [C |-> 1], random_seed |-> 0]})
NextNames == DoCheckNames
SpecNames == InitNames /\ [][NextNames]_vars

\* Requests for a data splitter: tables of few rows and of rows around the
\* threshold, every problem type, no configuration, an empty one, a partial
\* and a whole one.
RowCounts == {0, 3, _LARGE_DATA_ROW_THRESHOLD - 1, _LARGE_DATA_ROW_THRESHOLD,
              _LARGE_DATA_ROW_THRESHOLD + 1, 2 * _LARGE_DATA_ROW_THRESHOLD}

ProblemConfigurations ==
    { None, Some(<<>>), Some([gap |-> 1]), Some([gap |-> 1, max_delay |-> 2]) }

DoMakeDataSplitter ==
    \E rows \in RowCounts, pt \in ProblemTypes, c \in ProblemConfigurations,
       n_splits \in {3, 5}, shuffle \in BOOLEAN, random_state \in {None, Some(7)},
       random_seed \in Seeds :
          MakeDataSplitter(rows, pt, c, n_splits, shuffle, random_state, random_seed)

InitSplitter == InitWith({"BinaryPipeline"}, {[parameters |-> [C |-> 1], random_seed |-> 0]})
NextSplitter == DoMakeDataSplitter
SpecSplitter == InitSplitter /\ [][NextSplitter]_vars

\* Inference and scoring on a pipeline that is fitted, refitted (some fit
\* calls raising) and tuned.
ReadOnlyFit ==
    \E d \in {<<XA, Y1>>, <<XA, Y3>>, <<XD, Y4>>}, graph_ok \in BOOLEAN :
        Fit("P", d[1], d[2], graph_ok)
ReadOnlyTune == \E t \in ThresholdChoices : OptimizeThreshold("P", XA, Y1, get_objective("F1"), t)
ReadOnlyPredict == \E X \in {XA, XB} : Predict("P", X)
ReadOnlyPredictProba == \E X \in {XA, XB} : PredictProba("P", X)
ReadOnlyScore ==
    \E y \in {Y1, Y2}, names \in SeqsUpTo({"F1", "Log Loss Binary", "cost benefit"}, 2) :
       \E failing \in SUBSET (Range(names) \cap ObjectiveNames) :
          Score("P", XB, y, names, failing)

InitReadOnly == InitWith({"BinaryPipeline"}, {[parameters |-> [C |-> 1], random_seed |-> 0]})
NextReadOnly ==
    ReadOnlyFit \/ ReadOnlyTune \/ ReadOnlyPredict \/ ReadOnlyPredictProba \/ ReadOnlyScore
SpecReadOnly == InitReadOnly /\ [][NextReadOnly]_vars

----------------------------------------------------------------------------
(* Claims checked under Spec *)

Live == DOMAIN pipes
EverFitted(p) == history[p].fitted_on # None
SameResult(a, b) == a.err = b.err /\ (a.err = "" => a.val = b.val)

\* C1: on every pipeline (binary, multiclass, regression), predict,
\* predict_proba and feature_importance raise PipelineNotYetFittedError when
\* no fit call on the pipeline has returned yet, and do not raise it once
\* one has.
C1_NotFittedError ==
    last.op \in {"predict", "predict_proba", "feature_importance"}
    => (last.res.err = "PipelineNotYetFittedError" <=> ~EverFitted(last.pipe))

\* An inference call raises the error on a pipeline whose only fit call raised.
C1_Witness ==
    /\ last.op \in {"predict", "predict_proba", "feature_importance"}
    /\ last.res.err = "PipelineNotYetFittedError"
    /\ history[last.pipe].last_fit # None

\* An inference call returns on a pipeline after a fit call returned.
C1_WitnessFitted ==
    /\ last.op \in {"predict", "predict_proba", "feature_importance"}
    /\ last.res.err = ""
    /\ EverFitted(last.pipe)

\* C4: the clone (Q) of a pipeline (P) in any state has P's parameters and
\* random seed, and until a fit call on Q itself returns, predict on Q
\* raises PipelineNotYetFittedError, whatever is done to P.
C4_CloneUnfitted ==
    "Q" \in Live =>
        /\ pipes["Q"].cls = pipes["P"].cls
        /\ pipes["Q"].parameters = pipes["P"].parameters
        /\ pipes["Q"].random_seed = pipes["P"].random_seed
        /\ ~EverFitted("Q") =>
              /\ ~pipes["Q"]._is_fitted
              /\ \A X \in Xs : Call_predict("Q", X).err = "PipelineNotYetFittedError"
        /\ EverFitted("Q") =>
              \A X \in Xs : Call_predict("Q", X).err # "PipelineNotYetFittedError"

\* predict on the clone of a fitted pipeline with a non-default seed raises.
C4_Witness ==
    /\ "Q" \in Live
    /\ EverFitted("P") /\ ~EverFitted("Q")
    /\ pipes["P"].random_seed = 1
    /\ last.op = "predict" /\ last.pipe = "Q"
    /\ last.res.err = "PipelineNotYetFittedError"

\* What a pipeline has learned and stores: its fields, the classes_ of its
\* encoder and the state of its component graph.
Learned(p) ==
    [fields |-> pipes[p],
     classes |-> IF IsClassifier(p) THEN Encoder(p) ELSE None,
     graph |-> Graph(p)]

\* C5: a fit call on a pipeline, returning or raising, changes nothing of
\* the other pipeline (its source or its clone): fitted flag, encoder
\* classes_, learned graph state, threshold and input_target_name.
C5_CloneSharesNothing ==
    [][ (last'.op = "fit" /\ Live = PipeIds)
        => \A p \in PipeIds \ {last'.pipe} : Learned(p)' = Learned(p) ]_vars

\* P and Q are fitted on targets with different classes, Q last.
C5_Witness ==
    /\ Live = PipeIds
    /\ last.op = "fit" /\ last.pipe = "Q"
    /\ EverFitted("P") /\ EverFitted("Q")
    /\ IsClassifier("P")
    /\ Encoder("P") # Encoder("Q")

\* The objectives defined for a pipeline's problem type.
ObjectivesFor(p) ==
    { o.name : o \in { o \in Objectives :
                         is_defined_for_problem_type(o, problem_type(pipes[p].cls)) } }

----------------------------------------------------------------------------
(* Claims checked under SpecScore *)

KeysSeq(d) == [i \in DOMAIN d |-> d[i][1]]

\* The distinct elements of a sequence, in the order of their first occurrence.
RECURSIVE Distinct(_)
Distinct(s) ==
    IF s = <<>> THEN <<>>
    ELSE LET front == Distinct(SubSeq(s, 1, Len(s) - 1)) IN
         IF s[Len(s)] \in Range(front) THEN front ELSE Append(front, s[Len(s)])

\* The score an objective is due in the latest score call, from the encoded
\* targets and the predictions of that call.
ScoreDue(name) ==
    LET p == last.pipe
        c == _compute_predictions(p, last.args.X, create_objectives(last.args.objectives).val)
        y_enc == _encode_targets(Encoder(p), last.args.y).val
    IN objective_score(get_objective(name), y_enc, c.y_predicted, c.y_predicted_proba)

\* C2: when score evaluates its objectives and some of them raise, score
\* raises one PipelineScoreError; its scored_successfully maps exactly the
\* objectives that did not raise, each to its score; its exceptions has
\* exactly the objectives that raised as keys; its message holds the text of
\* every failure.
C2_PartialFailure ==
    (last.op = "score" /\ last.args.evaluated /\ last.args.failing # {})
    => /\ last.res.err = "PipelineScoreError"
       /\ Keys(last.res.val.scored_successfully)
             = Range(last.args.objectives) \ last.args.failing
       /\ Keys(last.res.val.exceptions) = last.args.failing
       /\ \A f \in last.args.failing : FailureText(f) \in Range(last.res.val.message)
       /\ \A i \in DOMAIN last.res.val.scored_successfully :
             last.res.val.scored_successfully[i][2]
                = ScoreDue(last.res.val.scored_successfully[i][1])

\* Of two objectives, the first raises and the second is scored.
C2_Witness ==
    /\ last.op = "score" /\ last.args.evaluated
    /\ last.args.objectives = <<"F1", "Log Loss Binary">>
    /\ last.args.failing = {"F1"}
    /\ last.res.err = "PipelineScoreError"
    /\ Keys(last.res.val.scored_successfully) = {"Log Loss Binary"}

\* C3: score returns normally exactly when its objectives are evaluated and
\* none raises; the mapping it returns then has one entry per requested
\* objective, keyed by the objective's name, in the order requested.
C3_ScoreReturns ==
    last.op = "score"
    => /\ last.res.err = "" <=> (last.args.evaluated /\ last.args.failing = {})
       /\ last.res.err = "" =>
             /\ KeysSeq(last.res.val) = Distinct(last.args.objectives)
             /\ \A i \in DOMAIN last.res.val : last.res.val[i][2] = ScoreDue(last.res.val[i][1])

\* Two objectives are scored and returned in the order requested.
C3_Witness ==
    /\ last.op = "score"
    /\ last.args.objectives = <<"Log Loss Binary", "F1">>
    /\ last.res.err = ""
    /\ KeysSeq(last.res.val) = <<"Log Loss Binary", "F1">>

----------------------------------------------------------------------------
(* Claims checked under SpecEq *)

Eq(p, q) == __eq__(pipes[p], pipes[q])

SameConstruction(p, q) ==
    /\ pipes[p].cls = pipes[q].cls
    /\ pipes[p].parameters = pipes[q].parameters
    /\ pipes[p].random_seed = pipes[q].random_seed

FittedOn(p) == The(history[p].fitted_on)

\* C6 as claimed: two pipelines are equal exactly when they have the same
\* concrete class, parameters and seed, are both fitted or both not, and,
\* when both are fitted, were fitted on targets of the same name.
C6_AsClaimed ==
    \A p \in Live, q \in Live :
        Eq(p, q) <=>
            /\ SameConstruction(p, q)
            /\ EverFitted(p) <=> EverFitted(q)
            /\ (EverFitted(p) /\ EverFitted(q))
                  => FittedOn(p).y.name = FittedOn(q).y.name

\* C6 as amended: ... and, when both are fitted, were fitted on targets of
\* the same name and on features with the same column names.
C6_Equality ==
    \A p \in Live, q \in Live :
        Eq(p, q) <=>
            /\ SameConstruction(p, q)
            /\ EverFitted(p) <=> EverFitted(q)
            /\ (EverFitted(p) /\ EverFitted(q))
                  => /\ FittedOn(p).y.name = FittedOn(q).y.name
                     /\ FittedOn(p).X.cols = FittedOn(q).X.cols

\* Two pipelines of the same construction, fitted on targets of the same
\* name and on features of different columns, are not equal; and a fitted
\* pipeline next to an instance of its subclass.
C6_Witness ==
    /\ Live = PipeIds
    /\ SameConstruction("P", "Q")
    /\ EverFitted("P") /\ EverFitted("Q")
    /\ FittedOn("P").y = FittedOn("Q").y
    /\ FittedOn("P").X.cols # FittedOn("Q").X.cols
    /\ ~Eq("P", "Q")

C6_WitnessEqual ==
    /\ Live = PipeIds
    /\ EverFitted("P") /\ EverFitted("Q")
    /\ FittedOn("P").y.name = Some("target")
    /\ Eq("P", "Q")

----------------------------------------------------------------------------
(* Claims checked under SpecThreshold *)

\* What the claim permits threshold tuning on: a binary pipeline and an
\* objective that is defined for binary problems and can optimize a threshold.
Permitted(p, objective) ==
    /\ problem_type(pipes[p].cls) = "binary"
    /\ "binary" \in objective.problem_types
    /\ objective.can_optimize_threshold

\* C9: optimize_threshold returns, or changes the threshold, only when
\* tuning is permitted; when it is not, the call raises the ValueError
\* "Problem type must be binary and objective must be optimizable." and the
\* threshold is the one before the call.
C9_OptimizeThreshold ==
    last.op = "optimize_threshold"
    => /\ (last.res.err = "" \/ pipes[last.pipe].threshold # last.args.before)
             => Permitted(last.pipe, last.args.objective)
       /\ ~Permitted(last.pipe, last.args.objective)
             => /\ last.res.err = "ValueError: Problem type must be binary and objective must be optimizable."
                /\ pipes[last.pipe].threshold = last.args.before

\* optimize_threshold raises on a binary pipeline that has a threshold, for
\* an objective that cannot optimize one.
C9_Witness ==
    /\ last.op = "optimize_threshold"
    /\ problem_type(pipes[last.pipe].cls) = "binary"
    /\ ~last.args.objective.can_optimize_threshold
    /\ last.args.before # None
    /\ last.res.err = "ValueError: Problem type must be binary and objective must be optimizable."

\* C10: a binary pipeline's threshold is None until a threshold-tuning call
\* is made on it, through fit and predict_proba; when optimize_threshold
\* returns, the threshold is a value from 0 to 1 (0 to 100 percent).
C10_Threshold ==
    \A p \in Live :
        problem_type(pipes[p].cls) = "binary" =>
            /\ ~history[p].tuned => pipes[p].threshold = None
            /\ (last.op = "optimize_threshold" /\ last.pipe = p /\ last.res.err = "")
                  => /\ pipes[p].threshold # None
                     /\ The(pipes[p].threshold) \in 0..100

\* optimize_threshold returns on a fitted binary pipeline that had no threshold.
C10_Witness ==
    /\ last.op = "optimize_threshold" /\ last.res.err = ""
    /\ problem_type(pipes[last.pipe].cls) = "binary"
    /\ EverFitted(last.pipe)
    /\ last.args.before = None
    /\ pipes[last.pipe].threshold # None

\* A fitted binary pipeline on which predict_proba was called has no threshold.
C10_WitnessUntuned ==
    /\ last.op = "predict_proba" /\ last.res.err = ""
    /\ problem_type(pipes[last.pipe].cls) = "binary"
    /\ pipes[last.pipe].threshold = None

\* C11: when tune_binary_threshold is given a binary problem type and an
\* objective defined for it that can optimize a threshold: without a tuning
\* split the call returns with threshold 0.5 and calls nothing on the
\* pipeline; with one, predict_proba is called first, on the split, with the
\* threshold at 0.5, and optimize_threshold is called only after it, exactly
\* when predict_proba returned a second column, and is given that column.
C11_TuneResets ==
    ( /\ last.op = "tune_binary_threshold"
      /\ last.args.problem_type = "binary"
      /\ "binary" \in last.args.objective.problem_types
      /\ last.args.objective.can_optimize_threshold )
    => LET X == last.args.X
           calls == last.calls
           proba == Call_predict_proba(last.pipe, The(X))
       IN /\ X = None =>
                /\ calls = <<>>
                /\ last.res.err = ""
                /\ pipes[last.pipe].threshold = Some(DefaultThreshold)
          /\ X # None =>
                /\ Len(calls) \in {1, 2}
                /\ calls[1].op = "predict_proba"
                /\ calls[1].arg = The(X)
                /\ calls[1].threshold = Some(DefaultThreshold)
                /\ Len(calls) = 2 <=> (proba.err = "" /\ Len(proba.val.data) >= 2)
                /\ Len(calls) = 2 =>
                      /\ calls[2].op = "optimize_threshold"
                      /\ calls[2].arg = proba.val.data[2]
                /\ last.res.err # "" => pipes[last.pipe].threshold = Some(DefaultThreshold)

\* A pipeline whose threshold was tuned away from 0.5 is tuned again on a split.
C11_Witness ==
    /\ last.op = "tune_binary_threshold"
    /\ last.args.problem_type = "binary"
    /\ last.args.X # None
    /\ last.args.before \notin {None, Some(DefaultThreshold)}
    /\ Len(last.calls) = 2
    /\ last.calls[1].threshold = Some(DefaultThreshold)
    /\ last.res.err = ""

\* Without a split, a tuned threshold goes back to 0.5.
C11_WitnessNoSplit ==
    /\ last.op = "tune_binary_threshold"
    /\ last.args.problem_type = "binary"
    /\ last.args.X = None
    /\ last.args.before \notin {None, Some(DefaultThreshold)}
    /\ pipes[last.pipe].threshold = Some(DefaultThreshold)

\* The last call was a tune_binary_threshold call whose condition did not
\* hold.
TuningRefused ==
    /\ last.op = "tune_binary_threshold"
    /\ \/ last.args.problem_type \notin {"binary", "time series binary"}
       \/ last.args.problem_type \notin last.args.objective.problem_types
       \/ ~last.args.objective.can_optimize_threshold

\* C29: a tune_binary_threshold call with a problem type that is not
\* binary, with an objective not defined for the problem type, or with an
\* objective that cannot optimize a threshold, returns without an error,
\* leaves the pipeline's threshold as it was, and makes no predict_proba
\* and no optimize_threshold call on the pipeline.
C29_NoTuning ==
    TuningRefused =>
        /\ last.res = Ok(<<>>)
        /\ pipes[last.pipe].threshold = last.args.before
        /\ last.calls = <<>>

\* A refused call, with a tuning split, on a fitted pipeline whose
\* threshold had been tuned to a value other than 0.5: for a problem type
\* that is not binary, for an objective that is not defined for binary
\* problems, and for one that cannot optimize a threshold.
C29_Witness ==
    /\ TuningRefused
    /\ last.args.problem_type = "multiclass"
    /\ last.args.objective.can_optimize_threshold
    /\ last.args.X # None
    /\ pipes[last.pipe]._is_fitted
    /\ last.args.before = Some(30)

C29_WitnessUndefined ==
    /\ TuningRefused
    /\ last.args.problem_type = "binary"
    /\ last.args.objective.name = "Custom Tunable"
    /\ last.args.X # None
    /\ last.args.before = Some(30)

C29_WitnessCannotOptimize ==
    /\ TuningRefused
    /\ last.args.problem_type = "binary"
    /\ last.args.objective.name = "Log Loss Binary"
    /\ last.args.X # None
    /\ last.args.before = Some(30)

----------------------------------------------------------------------------
(* Claims checked under SpecLabels *)

\* The target of the latest fit call on a pipeline, and its distinct labels.
LatestTarget(p) == The(history[p].last_fit).y
LatestLabels(p) == Range(LatestTarget(p).vals)

IsSorted(s) == \A i \in DOMAIN s, j \in DOMAIN s : i < j => s[i] < s[j]

\* C12: classes_ raises AttributeError('Cannot access class names before
\* fitting the pipeline.') on a pipeline on which fit was never called; once
\* fit was called, and so after a fit call that returned, it returns the
\* distinct values of that call's y in sorted order.
C12_Classes ==
    last.op = "classes_"
    => IF history[last.pipe].last_fit = None
       THEN last.res.err = "AttributeError: Cannot access class names before fitting the pipeline."
       ELSE /\ last.res.err = ""
            /\ Range(last.res.val) = LatestLabels(last.pipe)
            /\ IsSorted(last.res.val)

\* classes_ is read after a fit call that returned, on labels given unsorted.
C12_Witness ==
    /\ last.op = "classes_"
    /\ EverFitted(last.pipe)
    /\ The(history[last.pipe].last_fit).ok
    /\ LatestTarget(last.pipe) = Y4
    /\ last.res = Ok(<<3, 4, 5>>)

\* classes_ is read on a pipeline on which fit was never called.
C12_WitnessUnfitted ==
    /\ last.op = "classes_"
    /\ history[last.pipe].last_fit = None
    /\ last.res.err # ""

Single(v) == [vals |-> <<v>>, name |-> None]

\* C13: on a pipeline on which fit was called, the encoding maps the i-th
\* smallest label of that call's y to i - 1, so it is a bijection between
\* the labels and 0..n_classes-1: decoding the code of a label gives the
\* label, encoding the label of a code gives the code, and encoding a value
\* that is not a label raises ValueError.
C13_Bijection ==
    \A p \in Live :
        (IsClassifier(p) /\ history[p].last_fit # None) =>
            LET encoder == Encoder(p)
                labels == SortedSeq(LatestLabels(p))
                n == Len(labels)
            IN /\ \A i \in 1..n :
                     /\ _encode_targets(encoder, Single(labels[i])) = Ok(Single(i - 1))
                     /\ _decode_targets(encoder, <<i - 1>>) = Ok(<<labels[i]>>)
               /\ \A v \in LatestLabels(p) :
                     _decode_targets(encoder, _encode_targets(encoder, Single(v)).val.vals)
                        = Ok(<<v>>)
               /\ \A c \in 0..(n - 1) :
                     _encode_targets(encoder, Single(_decode_targets(encoder, <<c>>).val[1]))
                        = Ok(Single(c))
               /\ \A v \in LabelValues \ LatestLabels(p) :
                     _encode_targets(encoder, Single(v)).err
                        = "ValueError: y contains previously unseen labels"

\* After a fit on three labels given unsorted, the largest label is encoded.
C13_Witness ==
    /\ last.op = "_encode_targets"
    /\ history[last.pipe].last_fit # None
    /\ LatestTarget(last.pipe) = Y4
    /\ last.args.y = Single(5)
    /\ last.res = Ok(Single(2))

\* Encoding a value that was not seen at fit raises.
C13_WitnessUnseen ==
    /\ last.op = "_encode_targets"
    /\ history[last.pipe].last_fit # None
    /\ last.args.y.vals[1] \notin LatestLabels(last.pipe)
    /\ last.res.err = "ValueError: y contains previously unseen labels"

FitReturned == last.op = "fit" /\ last.res.err = ""

\* The labels of the target of the fit call that had last returned before
\* the last call.
LabelsBefore == UNION { Range(y.vals) : y \in last.args.before }

\* C22: after a fit call that returns, whatever calls of fit were made on
\* the pipeline before, the encoder, classes_, the encoding of each label,
\* the stored names, the fitted flag and the component graph are those of a
\* pipeline constructed alike and fitted on this call's data only; a label
\* of the earlier target that is not in this call's target is not encoded
\* any more.  So fitting on the same data again changes nothing.
C22_RefitFromScratch ==
    FitReturned =>
        LET p == last.pipe
            X == last.args.X
            y == last.args.y
            fresh == __init__(pipes[p].cls, pipes[p].parameters, pipes[p].random_seed,
                              pipes[p]._encoder, pipes[p]._component_graph)
            encoder == LabelEncoder_fit(y)
            labels == SortedSeq(Range(y.vals))
        IN /\ Encoder(p) = encoder
           /\ classes_(Encoder(p)) = Ok(labels)
           /\ \A i \in DOMAIN labels :
                 _encode_targets(Encoder(p), Single(labels[i])).val.vals = <<i - 1>>
           /\ \A v \in LabelsBefore \ Range(y.vals) :
                 _encode_targets(Encoder(p), Single(v)).err # ""
           /\ pipes[p] = [fresh EXCEPT !._is_fitted = TRUE,
                                       !.input_target_name = y.name,
                                       !.input_feature_names = Some(X.cols)]
           /\ Graph(p) = ComponentGraph_fit(None, component_graph(pipes[p].cls),
                                            pipes[p].parameters, pipes[p].random_seed,
                                            X, _encode_targets(encoder, y).val, 0).graph

\* A fit call that returned on a pipeline fitted before on a target with a
\* label, and a name, this call's target does not have.
C22_Witness ==
    /\ FitReturned
    /\ last.args.before # {}
    /\ LabelsBefore \ Range(last.args.y.vals) # {}
    /\ \E y \in last.args.before : y.name # last.args.y.name

\* A fit call that returned on a pipeline fitted before on the same target.
C22_WitnessSame ==
    /\ FitReturned
    /\ last.args.before = {last.args.y}

\* The labels of the target of the fit call that last returned: the call
\* that made the pipeline fitted and trained its final estimator.
TrainedLabels(p) == Range(The(history[p].fitted_on).y.vals)

\* C28: whenever a classification pipeline is fitted, its classes_ and its
\* encoder are those learned from the target of the fit call that produced
\* its fitted component graph, and predict returns labels of that target.
C28_AsClaimed ==
    \A p \in DOMAIN pipes :
        (IsClassifier(p) /\ pipes[p]._is_fitted) =>
            /\ Encoder(p) = LabelEncoder_fit(The(history[p].fitted_on).y)
            /\ classes_(Encoder(p)) = Ok(SortedSeq(TrainedLabels(p)))
            /\ (last.op = "predict" /\ last.pipe = p) =>
                  /\ last.res.err = ""
                  /\ Range(last.res.val.vals) \subseteq TrainedLabels(p)

\* After fit(X, [1, 2]) has returned and a component has raised in
\* fit(X, [5, 3, 4]), the pipeline is fitted, classes_ is [3, 4, 5], and
\* predict returns a label that the estimator was never trained on.
C28_Diverged ==
    /\ last.op = "predict" /\ last.res.err = ""
    /\ pipes[last.pipe]._is_fitted
    /\ TrainedLabels(last.pipe) = {1, 2}
    /\ classes_(Encoder(last.pipe)) = Ok(<<3, 4, 5>>)
    /\ Range(last.res.val.vals) \ TrainedLabels(last.pipe) # {}

\* After fit(X, [5, 3, 4]) has returned and a component has raised in
\* fit(X, [1, 2]), predict raises: the encoder has no label for a class
\* the estimator predicts.
C28_DivergedRaising ==
    /\ last.op = "predict" /\ pipes[last.pipe]._is_fitted
    /\ TrainedLabels(last.pipe) = {3, 4, 5}
    /\ last.res.err = "ValueError: y contains previously unseen labels"

----------------------------------------------------------------------------
(* Further claims checked under SpecScore *)

Count(s, v) == Cardinality({ i \in DOMAIN s : s[i] = v })

\* C16: in one score call, predict_proba is called at most once, and only
\* when some requested objective needs probabilities; _predict is called at
\* most once, and only when some requested objective does not; with no
\* objective neither is called.  When the objectives resolve and the targets
\* encode, predict_proba is called whenever some objective needs
\* probabilities, and _predict whenever some objective does not and
\* predict_proba, if called, returned.
C16_ComputedOnce ==
    last.op = "score" =>
        LET p == last.pipe
            created == create_objectives(last.args.objectives)
            reached == created.err = "" /\ _encode_targets(Encoder(p), last.args.y).err = ""
            need_proba == \E i \in DOMAIN created.val : created.val[i].score_needs_proba
            need_labels == \E i \in DOMAIN created.val : ~created.val[i].score_needs_proba
            n_proba == Count(last.calls, "predict_proba")
            n_labels == Count(last.calls, "_predict")
        IN /\ n_proba <= 1 /\ n_labels <= 1
           /\ Len(last.calls) = n_proba + n_labels
           /\ last.args.objectives = <<>> => last.calls = <<>>
           /\ reached =>
                 /\ n_proba = 1 <=> need_proba
                 /\ n_labels = 1 <=>
                       (need_labels /\ (need_proba => Call_predict_proba(p, last.args.X).err = ""))
           /\ ~reached => last.calls = <<>>

\* Two objectives that need labels are scored with one _predict call.
C16_Witness ==
    /\ last.op = "score" /\ last.res.err = ""
    /\ last.args.objectives = <<"F1", "F1">>
    /\ last.calls = <<"_predict">>

\* One objective of each kind: both calls are made, once each.
C16_WitnessBoth ==
    /\ last.op = "score" /\ last.res.err = ""
    /\ last.args.objectives = <<"F1", "Log Loss Binary">>
    /\ last.calls = <<"predict_proba", "_predict">>

\* C17 as claimed: the objectives are evaluated on the encoded targets and
\* on the label predictions decoded to the original labels.
C17_AsClaimed ==
    (last.op = "score" /\ last.args.evaluated) =>
        /\ last.args.given.y = Some(_encode_targets(Encoder(last.pipe), last.args.y).val)
        /\ last.args.given.y_predicted # None =>
              The(last.args.given.y_predicted) = predict(last.pipe, last.args.X).val.vals

\* C17 as amended: the objectives are evaluated on the encoded targets and on
\* the label predictions as _predict returns them, in the same integer
\* encoding, not decoded.
C17_ScoreEncoded ==
    (last.op = "score" /\ last.args.evaluated) =>
        LET p == last.pipe
            n == Len(The(Encoder(p)))
        IN /\ last.args.given.y = Some(_encode_targets(Encoder(p), last.args.y).val)
           /\ Range(The(last.args.given.y).vals) \subseteq 0..(n - 1)
           /\ last.args.given.y_predicted # None =>
                 /\ The(last.args.given.y_predicted) = _predict(p, last.args.X).val
                 /\ Range(The(last.args.given.y_predicted)) \subseteq 0..(n - 1)

\* An objective that needs labels is evaluated on predictions that are codes
\* and differ from the decoded labels.
C17_Witness ==
    /\ last.op = "score" /\ last.args.evaluated
    /\ last.args.objectives = <<"F1">>
    /\ last.args.given.y_predicted # None
    /\ The(last.args.given.y_predicted) # predict(last.pipe, last.args.X).val.vals
    /\ Range(The(last.args.given.y_predicted)) \subseteq {0, 1}

----------------------------------------------------------------------------
(* Claims checked under SpecGraph *)

\* The nodes of a pass, in the order of their invocation.
Invoked(trace) == [i \in DOMAIN trace |-> trace[i].node]

NodeNames(decls) == { decls[i].name : i \in DOMAIN decls }

IsPass == last.op \in {"fit", "predict", "predict_proba"} /\ last.calls # <<>>

\* The order in which test_nonlinear_pipeline_iteration finds the components.
IterationOrder ==
    << "Imputer", "OneHot_ElasticNet", "Elastic Net",
       "OneHot_RandomForest", "Random Forest", "Logistic Regression" >>

C18_WitnessFit ==
    /\ IsPass /\ last.op = "fit" /\ last.res.err = ""
    /\ pipes[last.pipe].cls = "NonlinearBinaryPipeline"
    /\ Len(last.calls) = 6

C18_WitnessLinear ==
    /\ IsPass /\ last.op = "fit" /\ last.res.err = ""
    /\ pipes[last.pipe].cls = "BinaryPipeline"
    /\ Len(last.calls) = 2

\* The columns a node of a pass puts out, read off the trace of the pass.
Output(decls, trace, name) ==
    LET decl == NodeNamed(decls, name)
        input == trace[IndexOf(Invoked(trace), name)].input
    IN CASE decl.kind = "estimator" -> <<name>>
         [] decl.kind = "encoder" -> [i \in DOMAIN input |-> input[i] \o "_1"]
         [] OTHER -> input

\* The final node of a graph: the one no node has as a parent.
FinalNode(decls) ==
    CHOOSE n \in NodeNames(decls) : \A i \in DOMAIN decls : n \notin Range(decls[i].parents)

EstimatorParents(decls, name) ==
    { n \in Range(NodeNamed(decls, name).parents) : NodeNamed(decls, n).kind = "estimator" }

\* C19: in every pass, the input of a node with parents is its parents'
\* outputs side by side in declared parent order, an estimator parent giving
\* one column named after it; so a final estimator whose k parents are all
\* estimators is given exactly k columns, named by its parents in declared
\* order, and feature_importance of the fitted pipeline has one row for each
\* of them.
C19_NodeInput ==
    LET cls == pipes[last.pipe].cls
        decls == component_graph(cls)
        final == NodeNamed(decls, FinalNode(decls))
        stacked == /\ final.parents # <<>>
                   /\ EstimatorParents(decls, final.name) = Range(final.parents)
    IN /\ IsPass =>
            \A i \in DOMAIN last.calls :
                LET decl == NodeNamed(decls, last.calls[i].node)
                    input == last.calls[i].input
                IN /\ decl.parents = <<>> => input = ColumnNames(last.args.X)
                   /\ decl.parents # <<>> =>
                        input = Concat([j \in DOMAIN decl.parents |->
                                          Output(decls, last.calls, decl.parents[j])])
                   /\ Cardinality({ k \in DOMAIN input : input[k] \in NodeNames(decls) })
                        = Cardinality(EstimatorParents(decls, decl.name))
                   /\ (decl.name = final.name /\ stacked) => input = final.parents
       /\ (last.op = "feature_importance" /\ last.res.err = "" /\ stacked) =>
            /\ Len(last.res.val) = Len(final.parents)
            /\ last.res.val = final.parents

\* The final estimator of the tests' nonlinear pipeline is fitted on the
\* predictions of its two parents, which ran in the order opposite to the
\* declared parent order.
C19_Witness ==
    /\ IsPass /\ last.op = "fit" /\ last.res.err = ""
    /\ pipes[last.pipe].cls = "NonlinearBinaryPipeline"
    /\ last.calls[6].node = "Logistic Regression"
    /\ last.calls[6].input = <<"Random Forest", "Elastic Net">>
    /\ Invoked(last.calls)[3] = "Elastic Net" /\ Invoked(last.calls)[5] = "Random Forest"

\* A node whose two parents are transformers, given a table of two columns.
C19_WitnessTransformers ==
    /\ IsPass /\ last.op = "predict" /\ last.res.err = ""
    /\ pipes[last.pipe].cls = "DiamondBinaryPipeline"
    /\ last.calls[4].input = <<"col_0", "col_1", "col_0_1", "col_1_1">>

\* feature_importance of the fitted nonlinear pipeline.
C19_WitnessImportance ==
    /\ last.op = "feature_importance" /\ last.res.err = ""
    /\ pipes[last.pipe].cls = "NonlinearBinaryPipeline"
    /\ last.res.val = <<"Random Forest", "Elastic Net">>

\* The nodes a node depends on, and the nodes that depend on it.
RECURSIVE Ancestors(_, _)
Ancestors(decls, name) ==
    LET parents == Range(NodeNamed(decls, name).parents)
    IN parents \cup UNION { Ancestors(decls, n) : n \in parents }

Downstream(decls, name) == { n \in NodeNames(decls) : name \in Ancestors(decls, n) }

\* What a node of a graph object holds from fitting.
NodeState(graph, name) == IF graph = None THEN None ELSE The(graph).nodes[name]

\* The last call was a fit call in which a component raised.
FitRaised == last.op = "fit" /\ last.res.err # ""

\* A fit call in which a component raised: the component is the last one
\* invoked, the call ends with the error, the component and the nodes
\* downstream of it hold what they held before, and the pipeline object is
\* as it was, marked fitted only if it was before.
FailedFitStep ==
    (last'.op = "fit" /\ last'.res.err # "") =>
        LET p == last'.pipe
            decls == component_graph(pipes[p].cls)
            t == last'.calls
            g == pipes[p]._component_graph
        IN /\ t # <<>>
           /\ \A i \in DOMAIN t : t[i].raised <=> i = Len(t)
           /\ last'.res = Raise("Exception: component fit failed")
           /\ \A n \in Downstream(decls, t[Len(t)].node) :
                 /\ n \notin Range(Invoked(t))
                 /\ NodeState(graphs'[g], n) = NodeState(graphs[g], n)
           /\ NodeState(graphs'[g], t[Len(t)].node) = NodeState(graphs[g], t[Len(t)].node)
           /\ pipes'[p] = pipes[p]

\* A fit call that returns, made on an object whose previous call was a fit
\* call in which a component raised: the pipeline is fitted, and every
\* component holds what it learned from this call's data.
RefitStep ==
    (FitRaised /\ last'.op = "fit" /\ last'.res.err = "" /\ last'.pipe = last.pipe) =>
        LET p == last'.pipe
            g == graphs'[pipes'[p]._component_graph]
        IN /\ pipes'[p]._is_fitted
           /\ AllFitted(g)
           /\ \A n \in NodeNames(component_graph(pipes[p].cls)) :
                 /\ The(NodeState(g, n)).X = last'.args.X
                 /\ The(NodeState(g, n)).y =
                      LabelEncoder_transform(LabelEncoder_fit(last'.args.y), last'.args.y.vals).val

\* C20: when a component's fit raises during a pipeline's fit, the fit call
\* ends with the error, no node downstream of the component is fitted by
\* the call, and the call does not mark the pipeline fitted; a later fit
\* call on the same object in which no component raises returns and leaves
\* the pipeline fitted.
C20_FailedFit == [][FailedFitStep /\ RefitStep]_vars

\* A fit call on a pipeline never fitted, in which the third of the six
\* components raised: the two before it are fitted, the others are not, and
\* the pipeline is not fitted.
C20_Witness ==
    /\ FitRaised
    /\ pipes[last.pipe].cls = "NonlinearBinaryPipeline"
    /\ ~pipes[last.pipe]._is_fitted
    /\ Invoked(last.calls) = <<"Imputer", "OneHot_ElasticNet", "Elastic Net">>
    /\ NodeState(Graph(last.pipe), "OneHot_ElasticNet") # None
    /\ NodeState(Graph(last.pipe), "Logistic Regression") = None

\* A fit call in which a component raised, on a pipeline fitted before: the
\* pipeline is still marked fitted, from the earlier call, and the
\* components before the one that raised hold this call's data.
C20_WitnessFitted ==
    /\ FitRaised
    /\ pipes[last.pipe]._is_fitted
    /\ \E n \in DOMAIN The(Graph(last.pipe)).nodes :
          The(NodeState(Graph(last.pipe), n)).X # The(history[last.pipe].fitted_on).X

----------------------------------------------------------------------------
(* Claims checked under SpecConstruct *)

\* The last call was a construction.
IsConstruction == last.op = "new" /\ last.args # <<>>

\* The nodes of a class's declaration whose component reference is a name
\* the registry does not have.
Unresolved(cls) ==
    { n \in NodeNames(component_graph(cls)) : ~GivenAsClass(n) /\ ComponentOf(n) \notin Registry }

\* The nodes whose constructor refuses the arguments the parameters give:
\* one of them is not an argument of the constructor, or an argument
\* without a default is not given.
Refused(cls, parameters) ==
    { n \in NodeNames(component_graph(cls)) :
        LET given == component_parameters(parameters, n)
            constructor == Constructor(ComponentOf(n))
        IN \/ given \ constructor.arguments # {}
           \/ constructor.required \ given # {} }

MissingComponentErrors ==
    { "MissingComponentError: Component " \o n \o " was not found" :
        n \in UNION { NodeNames(component_graph(cls)) : cls \in Classes } }

InstantiationErrors ==
    { "ValueError: Error received when instantiating component " \o ComponentOf(n) :
        n \in UNION { NodeNames(component_graph(cls)) : cls \in Classes } }

\* C21: a construction whose declaration has a component name the registry
\* does not have raises MissingComponentError; otherwise, one whose
\* parameters a component's constructor refuses (an unknown parameter, a
\* required argument not given) raises the ValueError of instantiation;
\* the two errors differ; a construction that raises leaves no object, and
\* one that does neither returns the object with the parameters given.
C21_ConstructionFails ==
    /\ MissingComponentErrors \cap InstantiationErrors = {}
    /\ IsConstruction =>
          LET cls == last.args.cls
              parameters == last.args.parameters
          IN /\ Unresolved(cls) # {} => last.res.err \in MissingComponentErrors
             /\ (Unresolved(cls) = {} /\ Refused(cls, parameters) # {}) =>
                    last.res.err \in InstantiationErrors
             /\ (Unresolved(cls) = {} /\ Refused(cls, parameters) = {}) =>
                    /\ last.res.err = ""
                    /\ last.pipe \in DOMAIN pipes
                    /\ pipes[last.pipe].cls = cls
                    /\ pipes[last.pipe].parameters = parameters
             /\ last.res.err # "" => last.pipe \notin DOMAIN pipes
             /\ cls = "FakePipeline" =>
                    last.res.err = "MissingComponentError: Component This Component Does Not Exist was not found"
             /\ (cls = "TestPipeline" /\ parameters = [C |-> 1]) =>
                    last.res.err = "ValueError: Error received when instantiating component Mock Component"

\* FakePipeline(parameters={}): the name is not found, and there is no
\* object.
C21_Witness ==
    /\ IsConstruction /\ last.args.cls = "FakePipeline" /\ last.args.parameters = [C |-> 1]
    /\ last.res.err \in MissingComponentErrors
    /\ last.pipe \notin DOMAIN pipes

\* TestPipeline(parameters={}): the required argument a is not given.
C21_WitnessRequired ==
    /\ IsConstruction /\ last.args.cls = "TestPipeline" /\ last.args.parameters = [C |-> 1]
    /\ last.res.err \in InstantiationErrors
    /\ last.pipe \notin DOMAIN pipes

\* A parameter the estimator's constructor does not have.
C21_WitnessUnknown ==
    /\ IsConstruction /\ last.args.cls = "BinaryPipeline"
    /\ "cool_parameter" \in component_parameters(last.args.parameters, "Estimator")
    /\ last.res.err = "ValueError: Error received when instantiating component Logistic Regression Classifier"

\* TestPipeline(parameters={'Mock Component': {'a': 42}}) is constructed.
C21_WitnessConstructed ==
    /\ IsConstruction /\ last.args.cls = "TestPipeline" /\ last.res.err = ""
    /\ last.pipe \in DOMAIN pipes

----------------------------------------------------------------------------
(* Claims checked under SpecNames *)

IsNamesCheck == last.op = "check_all_pipeline_names_unique"

\* The names given to the check, and those given more than once.
NamesGiven == [i \in DOMAIN last.args.pipelines |-> last.args.pipelines[i].name]
Duplicated == { n \in Range(NamesGiven) : Count(NamesGiven, n) > 1 }

\* C23: check_all_pipeline_names_unique raises ValueError exactly when some
\* name is given more than once; its message lists each such name once, in
\* sorted order, and no other name; when the names are distinct, and for
\* the empty list, it returns None.
C23_UniqueNames ==
    IsNamesCheck =>
        LET listed == last.args.listed IN
        /\ last.res.err # "" <=> Duplicated # {}
        /\ Duplicated = {} => last.res = Ok(None)
        /\ Duplicated # {} =>
              /\ Range(listed) = Duplicated
              /\ Len(listed) = Cardinality(Duplicated)
              /\ \A i \in DOMAIN listed, j \in DOMAIN listed :
                    i < j => IndexOf(PipelineNames, listed[i]) < IndexOf(PipelineNames, listed[j])
              /\ last.res.err = "ValueError: " \o DuplicateMessage(listed)
        /\ NamesGiven = <<"Pipeline 2", "Pipeline 1", "Pipeline 2", "Pipeline 1">> =>
              last.res.err = "ValueError: All pipeline names must be unique. The names 'Pipeline 1', 'Pipeline 2' were repeated."
        /\ NamesGiven = <<"Pipeline 3", "Pipeline 1", "Pipeline 3">> =>
              last.res.err = "ValueError: All pipeline names must be unique. The name 'Pipeline 3' was repeated."

\* Two names are repeated, the later of them first, and a third is not.
C23_Witness ==
    /\ IsNamesCheck
    /\ NamesGiven = <<"Pipeline 2", "Pipeline 1", "Pipeline 2", "Pipeline 1">>
    /\ last.args.listed = <<"Pipeline 1", "Pipeline 2">>

\* Distinct names, and no names.
C23_WitnessUnique ==
    /\ IsNamesCheck /\ Len(NamesGiven) = 3 /\ Duplicated = {} /\ last.res = Ok(None)

C23_WitnessEmpty ==
    /\ IsNamesCheck /\ NamesGiven = <<>> /\ last.res = Ok(None)

----------------------------------------------------------------------------
(* Further claims checked under SpecGraph *)

\* The nodes that have a given node as a parent.
Children(decls, name) ==
    { n \in NodeNames(decls) : name \in Range(NodeNamed(decls, n).parents) }

\* The last call made a pass that no component's failure cut short.
IsWholePass == IsPass /\ (last.op = "fit" => last.res.err = "")

\* C24: in every pass, in fit mode or in predict mode, no node is invoked
\* more than once, whatever the number of its children, and every child's
\* input holds the output of that one invocation; a pass that is not cut
\* short invokes every node exactly once, whatever passes came before it.
C24_InvokedOnce ==
    IsPass =>
        LET decls == component_graph(pipes[last.pipe].cls)
            names == Invoked(last.calls)
        IN /\ \A n \in NodeNames(decls) :
                 /\ Count(names, n) <= 1
                 /\ IsWholePass => Count(names, n) = 1
           /\ IsWholePass => Len(names) = Len(decls)
           /\ \A i \in DOMAIN names :
                 LET decl == NodeNamed(decls, names[i]) IN
                 \A j \in DOMAIN decl.parents :
                     /\ Count(SubSeq(names, 1, i - 1), decl.parents[j]) = 1
                     /\ \E k \in 0..(Len(last.calls[i].input) - 1) :
                           LET out == Output(decls, last.calls, decl.parents[j]) IN
                           /\ k + Len(out) <= Len(last.calls[i].input)
                           /\ SubSeq(last.calls[i].input, k + 1, k + Len(out)) = out

\* A predict pass, which follows the pass of a fit call, over the tests'
\* nonlinear pipeline: the imputer has two children and is invoked once.
C24_Witness ==
    /\ IsWholePass /\ last.op = "predict" /\ last.res.err = ""
    /\ pipes[last.pipe].cls = "NonlinearBinaryPipeline"
    /\ Cardinality(Children(component_graph("NonlinearBinaryPipeline"), "Imputer")) = 2
    /\ Count(Invoked(last.calls), "Imputer") = 1
    /\ Len(last.calls) = 6

\* A fit pass on a pipeline fitted before, over the graph declared child
\* first.
C24_WitnessSecondFit ==
    /\ IsWholePass /\ last.op = "fit" /\ last.args.before # {}
    /\ pipes[last.pipe].cls = "DiamondBinaryPipeline"
    /\ Len(last.calls) = 4

----------------------------------------------------------------------------
(* Claims on the order of the steps of score, checked under SpecScore *)

\* The names of a request that do not resolve to an objective.
Unresolvable(names) == { i \in DOMAIN names : names[i] \notin ObjectiveNames }

\* The labels of a target that the encoder of the pipeline does not hold.
Unseen(p, y) ==
    IF Encoder(p) = None THEN Range(y.vals) ELSE Range(y.vals) \ Range(The(Encoder(p)))

\* C25: a score call with a name that does not resolve raises the error of
\* the first such name, ObjectiveCreationError for the name of an objective
\* that must be instantiated and ObjectiveNotFoundError otherwise; a call
\* whose names resolve and whose target has a label the encoder does not
\* hold raises the encoder's ValueError; in both cases the error is not a
\* PipelineScoreError, no objective is evaluated, and neither predict_proba
\* nor _predict has been called.
C25_ResolutionFirst ==
    last.op = "score" =>
        LET names == last.args.objectives
            bad == Unresolvable(names)
            unseen == Unseen(last.pipe, last.args.y)
        IN /\ bad # {} =>
                 /\ last.res.err = (IF names[Min(bad)] = "cost benefit matrix"
                                    THEN "ObjectiveCreationError" ELSE "ObjectiveNotFoundError")
                 /\ last.calls = <<>>
                 /\ ~last.args.evaluated
           /\ (bad = {} /\ unseen # {}) =>
                 /\ last.res.err \in {"ValueError: y contains previously unseen labels",
                                      "ValueError: This LabelEncoder instance is not fitted yet."}
                 /\ last.calls = <<>>
                 /\ ~last.args.evaluated
           /\ (bad # {} \/ unseen # {}) => last.res.err # "PipelineScoreError"

\* A score call on a fitted pipeline with a target that has a label not
\* seen at fit, for an objective that needs predictions.
C25_Witness ==
    /\ last.op = "score"
    /\ pipes[last.pipe]._is_fitted
    /\ last.args.objectives = <<"F1", "Log Loss Binary">>
    /\ Unseen(last.pipe, last.args.y) # {}
    /\ last.res.err = "ValueError: y contains previously unseen labels"
    /\ last.calls = <<>>

\* ["cost benefit matrix", "F1"] and ["cost benefit", "F1"] on a fitted
\* pipeline, as in the tests.
C25_WitnessCreation ==
    /\ last.op = "score" /\ pipes[last.pipe]._is_fitted
    /\ last.args.objectives = <<"cost benefit matrix", "F1">>
    /\ last.res.err = "ObjectiveCreationError"

C25_WitnessNotFound ==
    /\ last.op = "score" /\ pipes[last.pipe]._is_fitted
    /\ last.args.objectives = <<"cost benefit", "F1">>
    /\ last.res.err = "ObjectiveNotFoundError"

----------------------------------------------------------------------------
(* Claims checked under SpecSplitter *)

IsSplitterRequest == last.op = "make_data_splitter"

\* C26: for each of the three time series problem types and any number of
\* rows, make_data_splitter raises ValueError('problem_configuration is
\* required for time series problem types') when the configuration is None
\* or empty, and otherwise returns a TimeSeriesSplit of the n_splits given
\* and of the configuration's gap and max_delay.
C26_TimeSeries ==
    (IsSplitterRequest /\ last.args.problem_type \in
        {"time series regression", "time series binary", "time series multiclass"}) =>
        LET c == last.args.problem_configuration IN
        IF c = None \/ DOMAIN The(c) = {}
        THEN last.res = Raise("ValueError: problem_configuration is required for time series problem types")
        ELSE /\ last.res.err = ""
             /\ The(last.res.val).splitter = "TimeSeriesSplit"
             /\ The(last.res.val).n_splits = last.args.n_splits
             /\ The(last.res.val).gap = (IF "gap" \in DOMAIN The(c) THEN {The(c).gap} ELSE {})
             /\ The(last.res.val).max_delay =
                   (IF "max_delay" \in DOMAIN The(c) THEN {The(c).max_delay} ELSE {})

\* A time series request for a table above the threshold, with a whole
\* configuration, and one with an empty configuration.
C26_Witness ==
    /\ IsSplitterRequest /\ last.args.problem_type = "time series binary"
    /\ last.args.rows > 100000
    /\ last.args.problem_configuration = Some([gap |-> 1, max_delay |-> 2])
    /\ last.res.err = "" /\ The(last.res.val).splitter = "TimeSeriesSplit"
    /\ The(last.res.val).gap = {1} /\ The(last.res.val).max_delay = {2}

C26_WitnessEmpty ==
    /\ IsSplitterRequest /\ last.args.problem_type = "time series regression"
    /\ last.args.problem_configuration = Some(<<>>)
    /\ last.res.err # ""

\* C27: for regression, binary and multiclass problems make_data_splitter
\* returns, for more than 100000 rows, a single training/validation split
\* (TrainingValidationSplit for regression, the balanced one for binary and
\* multiclass) and, for 100000 rows or fewer, cross-validation (KFold for
\* regression, the balanced one for binary and multiclass); for each of the
\* six problem types it raises or returns a splitter, never None.
C27_ByRows ==
    IsSplitterRequest =>
        LET pt == last.args.problem_type
            large == last.args.rows > 100000
        IN /\ last.res.err = "" => last.res.val # None
           /\ pt \in {"regression", "binary", "multiclass"} =>
                 /\ last.res.err = ""
                 /\ The(last.res.val).splitter =
                       (CASE large /\ pt = "regression" -> "TrainingValidationSplit"
                          [] large /\ pt # "regression" -> "BalancedClassificationDataTVSplit"
                          [] ~large /\ pt = "regression" -> "KFold"
                          [] ~large /\ pt # "regression" -> "BalancedClassificationDataCVSplit")

\* Requests at the threshold and one row above it.
C27_Witness ==
    /\ IsSplitterRequest /\ last.args.problem_type = "multiclass"
    /\ last.args.rows = 100000
    /\ The(last.res.val).splitter = "BalancedClassificationDataCVSplit"

C27_WitnessLarge ==
    /\ IsSplitterRequest /\ last.args.problem_type = "regression"
    /\ last.args.rows = 100001
    /\ The(last.res.val).splitter = "TrainingValidationSplit"

----------------------------------------------------------------------------
(* Claims checked under SpecReadOnly *)

\* A step that is a predict, predict_proba or score call changes no
\* pipeline object, no encoder and no component graph.
ReadOnlyStep ==
    last'.op \in {"predict", "predict_proba", "score"} =>
        /\ pipes' = pipes
        /\ encoders' = encoders
        /\ graphs' = graphs

\* C30: a predict, predict_proba or score call, whether it returns or
\* raises, leaves the pipeline as it was: its fitted flag, its threshold,
\* its input_target_name, and its encoder, hence classes_ and the encoding
\* of the targets.
C30_ReadOnly == [][ReadOnlyStep]_vars

\* A score call that raised PipelineScoreError on a fitted pipeline with a
\* tuned threshold and a target name; a predict call that raised; a
\* predict_proba call that returned.
C30_Witness ==
    /\ last.op = "score" /\ last.res.err = "PipelineScoreError"
    /\ pipes[last.pipe]._is_fitted
    /\ pipes[last.pipe].threshold = Some(30)
    /\ pipes[last.pipe].input_target_name = Some("target")
    /\ classes_(Encoder(last.pipe)) = Ok(<<1, 2>>)

C30_WitnessPredictRaised ==
    /\ last.op = "predict" /\ last.res.err # ""
    /\ pipes[last.pipe]._is_fitted
    /\ pipes[last.pipe].threshold = Some(30)

C30_WitnessProba ==
    /\ last.op = "predict_proba" /\ last.res.err = ""
    /\ pipes[last.pipe]._is_fitted
    /\ pipes[last.pipe].threshold = Some(30)

====
